---- MODULE Spec2Model ----
(***************************************************************************)
(* Retrieval-augmented context assembly engine of socratic-tutor:          *)
(*   backend/app/services/embedding_service.py  (EmbeddingService)         *)
(*   backend/app/services/rag_service.py        (RAGService)               *)
(*   backend/app/services/chunking_service.py   (ChunkingService)          *)
(*   backend/scripts/ingest_book.py             (BookIngestionPipeline)    *)
(*   backend/app/services/chat_service.py       (ChatService)              *)
(*   backend/app/services/profile_service.py    (ProfileService)           *)
(*                                                                         *)
(* Strings are sequences of one-character strings.  Scores are exact       *)
(* decimals held as integers in units of 10^-8 (One is the score 1.0).     *)
(***************************************************************************)
EXTENDS Integers, Sequences, FiniteSets, TLC

\* ---------------------------------------------------------------- bounds
MaxTexts == 3
MaxBatchSize == 2
MaxRetriesBound == 2
MaxRows == 2
MaxTopK == 2
MaxRerankCalls == 2
MaxTextLen == 6
MaxChunkSize == 5
MaxRuns == 2
MaxChapters == 1
MaxChapterChunks == 2
MaxSends == 1
MaxConversations == 2
MaxEnders == 2
MaxUpdates == 3
MaxUpdaters == 2
MaxAssessments == 1

\* ------------------------------------------------------------- variables
VARIABLES
    \* EmbeddingService
    batch_size,      \* self.batch_size
    max_retries,     \* self.max_retries
    ec_chunks,       \* the caller's chunk dictionaries handed to embed_chunks
    e_pc,            \* position of the embed_chunks coroutine
    e_i,             \* loop variable i of generate_embeddings_batched
    e_retry,         \* retry_count of the running generate_embeddings
    e_all,           \* all_embeddings
    e_log,           \* provider calls and sleeps, in the order they happen
    e_returned,      \* what generate_embeddings_batched handed to its caller
    e_error,         \* the exception that left embed_chunks, if any
    e_provider_exc,  \* what the provider raised on the latest answered call, if anything
    \* RAGService and the Index it queries
    r_init_args,     \* semantic_weight and keyword_weight given to RAGService(...)
    semantic_weight, \* self.semantic_weight, in thousandths
    keyword_weight,  \* self.keyword_weight, in thousandths
    index,           \* rows of the chunks table with the scores the Index gives them
    r_pc,            \* "new", "rejected" or "idle" after construction, then the
                     \* position of the retrieve coroutine
    r_args,          \* query, chapter_id, top_k and similarity_threshold of the call
    r_log,           \* embedding and Index requests of the call, in order
    r_found,         \* the list _hybrid_search returned to retrieve
    r_results,       \* the list retrieve returned
    r_error,         \* the exception that left retrieve, if any
    r_context,       \* the string format_context_for_llm returned, as its parts
    rerank_calls,    \* direct _rerank calls made on the returned list
    r_before,        \* the returned list before the first direct _rerank call
    r_first,         \* the list after the first direct _rerank call
    \* ChunkingService
    c_config,        \* self.config
    c_pc,            \* "new", "idle" once constructed, "done" once chunk_text has run
    c_input,         \* the arguments of the chunk_text call
    c_chunks,        \* the list chunk_text returned
    c_loop           \* current_chunk, current_start_char, chunk_index, current_section
                     \* and chunks of the chunk_text call, before the paragraph
                     \* loop and after each of its iterations
    ,
    \* BookIngestionPipeline and the database it writes
    db_books,        \* committed rows of the books table
    db_chapters,     \* committed rows of the chapters table
    db_chunks,       \* committed rows of the chunks table
    next_uuid,       \* number of identifiers uuid4 has handed out
    p_pc,            \* position of the run coroutine
    p_args,          \* title, force, the operator's answer and the detected chapters
    p_existing,      \* existing_book_id of run, 0 for None
    p_book_id,       \* book_id of the run
    p_idx,           \* idx of the chapter loop of run
    p_chapter_id,    \* chapter_id of the running _process_chapter
    p_chunks,        \* chunk_dicts, then chunks_with_embeddings
    p_error,         \* the exception that left run, if any
    \* ChatService calls, each with a session of its own, and their database
    db_conversations,\* committed rows of the conversations table: id -> status
    db_messages,     \* committed rows of the messages table, in the order of their commits
    db_summaries,    \* conversation ids of the committed conversation summaries
    utcnow,          \* number of datetime.utcnow() readings taken for created_at
    k_pc,            \* position of the create_conversation coroutine
    k_id,            \* conversation_id of the running create_conversation
    k_error,         \* the exception that left create_conversation, if any
    k_created_at,    \* created_at of the greeting's dictionary
    sends,           \* number of send_message calls started
    s_pc,            \* position of each send_message generator, "idle" before it starts
    s_args,          \* conversation_id and user_message of each call
    s_at_call,       \* the row of its conversation when each call was made (history)
    s_conversation,  \* the row conversation_repo.get returned to each call
    s_created_at,    \* created_at of the dictionary each call built last
    s_written,       \* the messages each call has persisted
    s_log,           \* retrieval and LLM requests of each call, in order
    s_response,      \* full_response of each call
    s_error,         \* the exception that left each call, if any
    x_pc,            \* position of each end_conversation coroutine, "idle" before it starts
    x_args,          \* conversation_id of each end_conversation call
    x_error,         \* the exception that left each end_conversation, if any
    x_messages,      \* what get_by_conversation returned to each call
    x_update,        \* the gaps each call read from the profile, with the
                     \* assessments and chapter_id of its update_from_summary
    \* ProfileService.update_from_summary on the one learning profile of a user
    identified_gaps, \* the committed profile.identified_gaps
    u_calls,         \* number of update_from_summary calls started
    u_args,          \* per call: the gaps it read, its assessments and
                     \* chapter_id, and the updated_gaps _update_gaps returned
    u_pc             \* per call: "idle", "computed" before the write, "updated" after

embed_vars == <<batch_size, max_retries, ec_chunks, e_pc, e_i, e_retry,
                e_all, e_log, e_returned, e_error, e_provider_exc>>

rag_vars == <<r_init_args, semantic_weight, keyword_weight, index, r_found, r_pc, r_args, r_log,
              r_results, r_error, r_context, rerank_calls, r_before, r_first>>

chunk_vars == <<c_config, c_pc, c_input, c_chunks, c_loop>>

ingest_vars == <<db_books, db_chapters, db_chunks, next_uuid, p_pc, p_args, p_existing, p_book_id,
                 p_idx, p_chapter_id, p_chunks, p_error>>

chat_vars == <<db_conversations, db_messages, db_summaries, utcnow, k_pc, k_id, k_error,
               k_created_at, sends, s_pc, s_args, s_at_call, s_conversation, s_created_at, s_written,
               s_log, s_response, s_error, x_pc, x_args, x_error, x_messages, x_update>>

profile_vars == <<identified_gaps, u_calls, u_args, u_pc>>

chat_data == <<db_conversations, db_messages, db_summaries, utcnow, k_pc, k_id, k_error,
               k_created_at, sends, s_pc, s_args, s_at_call, s_conversation, s_created_at, s_written,
               s_log, s_response, s_error, x_args, x_error, x_messages, x_update>>

other_than_embed == <<rag_vars, chunk_vars, ingest_vars, chat_vars, profile_vars>>

other_than_rag == <<embed_vars, chunk_vars, ingest_vars, chat_vars, profile_vars>>

other_than_chunk == <<embed_vars, rag_vars, ingest_vars, chat_vars, profile_vars>>

other_than_ingest == <<embed_vars, rag_vars, chunk_vars, chat_vars, profile_vars>>

other_than_chat == <<embed_vars, rag_vars, chunk_vars, ingest_vars, profile_vars>>

other_than_profile == <<embed_vars, rag_vars, chunk_vars, ingest_vars, chat_vars>>

vars == <<embed_vars, rag_vars, chunk_vars, ingest_vars, chat_vars, profile_vars>>

\* --------------------------------------------------------------- strings
None == "None"

Whitespace == {" ", "\n"}

Min(a, b) == IF a <= b THEN a ELSE b

Max(a, b) == IF a >= b THEN a ELSE b

RECURSIVE LStrip(_)
LStrip(s) ==
    IF s = <<>> THEN s
    ELSE IF Head(s) \in Whitespace THEN LStrip(Tail(s)) ELSE s

RECURSIVE RStrip(_)
RStrip(s) ==
    IF s = <<>> THEN s
    ELSE IF s[Len(s)] \in Whitespace THEN RStrip(SubSeq(s, 1, Len(s) - 1)) ELSE s

\* str.strip()
Strip(s) == RStrip(LStrip(s))

RECURSIVE Pow2(_)
Pow2(k) == IF k = 0 THEN 1 ELSE 2 * Pow2(k - 1)

\* ------------------------------------------------------ EmbeddingService
\* texts a caller may hand over: empty, whitespace-only, padded and plain
TextPool == { <<>>, <<" ">>, <<"a">>, <<"b", " ">> }

RECURSIVE SeqsUpTo(_, _)
SeqsUpTo(S, n) ==
    IF n = 0 THEN { <<>> }
    ELSE LET shorter == SeqsUpTo(S, n - 1)
         IN  shorter \cup { Append(s, x) : s \in { t \in shorter : Len(t) = n - 1 }, x \in S }

\* the provider's vector for one cleaned text (external collaborator)
Vec(t) == [vec |-> t]

\* the RateLimitError and the other errors the provider client may raise
ProviderErrors == { "APIConnectionError", "BadRequestError" }

\* the exceptions generate_embeddings lets through: the provider's own
\* error, re-raised as it is, or the Exception raised from the
\* RateLimitError when the rate limit outlasts the retries
EmbeddingErrors ==
    { [type |-> err, cause |-> None] : err \in ProviderErrors }
        \cup { [type |-> "Exception", cause |-> "RateLimitError"] }

\* mutant of Clean: a blank text is kept, as an empty string
Clean_Placeholder(ts) == [k \in 1..Len(ts) |-> Strip(ts[k])]

\* cleaned_texts = [text.strip() for text in texts if text.strip()]
RECURSIVE Clean(_)
Clean(ts) ==
    IF ts = <<>> THEN <<>>
    ELSE IF Strip(Head(ts)) # <<>> THEN <<Strip(Head(ts))>> \o Clean(Tail(ts))
         ELSE Clean(Tail(ts))

\* texts = [chunk["content"] for chunk in chunks]
ChunkTexts(chunks) == [k \in 1..Len(chunks) |-> chunks[k].content]

\* mutant of BatchAt: the slice runs one element into the next batch
BatchAt_Long(ts, i) == SubSeq(ts, i + 1, Min(i + batch_size + 1, Len(ts)))

\* batch = texts[i : i + self.batch_size]
BatchAt(ts, i) == SubSeq(ts, i + 1, Min(i + batch_size, Len(ts)))

\* batch_num = i // self.batch_size + 1
BatchNum(i) == (i \div batch_size) + 1

\* for chunk, embedding in zip(chunks, embeddings): chunk["embedding"] = embedding
ZipEmbeddings(chunks, embs) ==
    [k \in 1..Len(chunks) |->
        IF k <= Len(embs) THEN [chunks[k] EXCEPT !.embedding = embs[k]]
        ELSE chunks[k]]

\* a chunk dictionary that has no 'embedding' key yet
NoEmbedding == [vec |-> <<>>]

ChunkDicts == { [content |-> t, embedding |-> NoEmbedding] : t \in TextPool }

NoError == [type |-> None, cause |-> None]

\* one entry of the call log
Event(kind, batch, input, secs) ==
    [kind |-> kind, batch |-> batch, input |-> input, secs |-> secs]

\* mutant of FinishBatch: the vectors are attached to the chunks batch by batch
FinishBatch_Eager(chunks, i, all, log, embs) ==
    LET done == Append(log, Event("ret", BatchNum(i), <<>>, 0))
    IN  /\ e_i' = i
        /\ e_all' = all \o embs
        /\ ec_chunks' = ZipEmbeddings(chunks, all \o embs)
        /\ IF i + batch_size < Len(chunks)
           THEN /\ e_pc' = "pause"
                /\ e_log' = Append(done, Event("pause", BatchNum(i), <<>>, 0))
                /\ UNCHANGED e_returned
           ELSE /\ e_pc' = "done"
                /\ e_log' = done
                /\ e_returned' = all \o embs

\* mutant of FinishBatch: the pause is taken after the last batch as well
FinishBatch_AlwaysPause(chunks, i, all, log, embs) ==
    LET done == Append(log, Event("ret", BatchNum(i), <<>>, 0))
    IN  /\ e_i' = i
        /\ e_all' = all \o embs
        /\ IF i < Len(chunks)
           THEN /\ e_pc' = "pause"
                /\ e_log' = Append(done, Event("pause", BatchNum(i), <<>>, 0))
                /\ ec_chunks' = chunks
                /\ UNCHANGED e_returned
           ELSE /\ e_pc' = "done"
                /\ e_log' = done
                /\ e_returned' = all \o embs
                /\ ec_chunks' = ZipEmbeddings(chunks, all \o embs)

\* generate_embeddings returned embs for the batch at offset i: extend
\* all_embeddings, then either sleep before the next batch or leave the loop,
\* return to embed_chunks and attach the vectors.
FinishBatch(chunks, i, all, log, embs) ==
    LET done == Append(log, Event("ret", BatchNum(i), <<>>, 0))
    IN  /\ e_i' = i
        /\ e_all' = all \o embs
        /\ IF i + batch_size < Len(chunks)
           THEN /\ e_pc' = "pause"
                /\ e_log' = Append(done, Event("pause", BatchNum(i), <<>>, 0))
                /\ ec_chunks' = chunks
                /\ UNCHANGED e_returned
           ELSE /\ e_pc' = "done"
                /\ e_log' = done
                /\ e_returned' = all \o embs
                /\ ec_chunks' = ZipEmbeddings(chunks, all \o embs)

\* loop body up to the provider call of generate_embeddings(batch, 0); a batch
\* with no non-blank text returns [] without calling the provider.
StartBatch(chunks, i, all, log) ==
    LET cleaned == Clean(BatchAt(ChunkTexts(chunks), i))
    IN  /\ e_retry' = 0
        /\ IF cleaned = <<>>
           THEN FinishBatch(chunks, i, all, log, <<>>)
           ELSE /\ e_pc' = "call"
                /\ e_i' = i
                /\ e_all' = all
                /\ e_log' = Append(log, Event("call", BatchNum(i), cleaned, 0))
                /\ ec_chunks' = chunks
                /\ UNCHANGED e_returned

\* await embedding_service.embed_chunks(chunks)
EmbedChunks(chunks) ==
    /\ UNCHANGED other_than_embed
    /\ e_pc = "idle"
    /\ IF chunks = <<>>
       THEN /\ e_pc' = "done"
            /\ ec_chunks' = chunks
            /\ e_returned' = <<>>
            /\ UNCHANGED <<e_i, e_retry, e_all, e_log>>
       ELSE StartBatch(chunks, 0, <<>>, <<>>)
    /\ UNCHANGED <<batch_size, max_retries, e_error, e_provider_exc>>

\* response = await self.client.embeddings.create(...) succeeded
ProviderOk ==
    /\ UNCHANGED other_than_embed
    /\ e_pc = "call"
    /\ LET cleaned == Clean(BatchAt(ChunkTexts(ec_chunks), e_i))
       IN  FinishBatch(ec_chunks, e_i, e_all, e_log,
                       [k \in 1..Len(cleaned) |-> Vec(cleaned[k])])
    /\ e_provider_exc' = None
    /\ UNCHANGED <<batch_size, max_retries, e_retry, e_error>>

\* mutant of ProviderRateLimit: one retry too many
ProviderRateLimit_OffByOne ==
    /\ UNCHANGED other_than_embed
    /\ e_pc = "call"
    /\ e_provider_exc' = "RateLimitError"
    /\ IF e_retry <= max_retries
       THEN /\ e_pc' = "sleep"
            /\ e_log' = Append(e_log, Event("wait", BatchNum(e_i), <<>>, Pow2(e_retry)))
            /\ UNCHANGED e_error
       ELSE /\ e_pc' = "failed"
            /\ e_error' = [type |-> "Exception", cause |-> "RateLimitError"]
            /\ UNCHANGED e_log
    /\ UNCHANGED <<batch_size, max_retries, ec_chunks, e_i, e_retry, e_all, e_returned>>

\* except RateLimitError
ProviderRateLimit ==
    /\ UNCHANGED other_than_embed
    /\ e_pc = "call"
    /\ e_provider_exc' = "RateLimitError"
    /\ IF e_retry < max_retries
       THEN /\ e_pc' = "sleep"
            /\ e_log' = Append(e_log, Event("wait", BatchNum(e_i), <<>>, Pow2(e_retry)))
            /\ UNCHANGED e_error
       ELSE /\ e_pc' = "failed"
            /\ e_error' = [type |-> "Exception", cause |-> "RateLimitError"]
            /\ UNCHANGED e_log
    /\ UNCHANGED <<batch_size, max_retries, ec_chunks, e_i, e_retry, e_all, e_returned>>

\* mutant of ProviderError: the provider's error is wrapped in a new exception
ProviderError_Wrapped(err) ==
    /\ UNCHANGED other_than_embed
    /\ e_pc = "call"
    /\ e_pc' = "failed"
    /\ e_error' = [type |-> "Exception", cause |-> err]
    /\ e_provider_exc' = err
    /\ UNCHANGED <<batch_size, max_retries, ec_chunks, e_i, e_retry, e_all,
                   e_log, e_returned>>

\* except Exception as e: raise
ProviderError(err) ==
    /\ UNCHANGED other_than_embed
    /\ e_pc = "call"
    /\ e_pc' = "failed"
    /\ e_error' = [type |-> err, cause |-> None]
    /\ e_provider_exc' = err
    /\ UNCHANGED <<batch_size, max_retries, ec_chunks, e_i, e_retry, e_all,
                   e_log, e_returned>>

\* asyncio.sleep(wait_time) is over: generate_embeddings(texts, retry_count + 1)
BackoffDone ==
    /\ UNCHANGED other_than_embed
    /\ e_pc = "sleep"
    /\ e_pc' = "call"
    /\ e_retry' = e_retry + 1
    /\ e_log' = Append(e_log, Event("call", BatchNum(e_i),
                                     Clean(BatchAt(ChunkTexts(ec_chunks), e_i)), 0))
    /\ e_provider_exc' = None
    /\ UNCHANGED <<batch_size, max_retries, ec_chunks, e_i, e_all, e_returned, e_error>>

\* asyncio.sleep(0.5) is over: next iteration of the batch loop
PauseDone ==
    /\ UNCHANGED other_than_embed
    /\ e_pc = "pause"
    /\ StartBatch(ec_chunks, e_i + batch_size, e_all, e_log)
    /\ UNCHANGED <<batch_size, max_retries, e_error, e_provider_exc>>


EmbedIdle ==
    /\ batch_size \in 1..MaxBatchSize
    /\ max_retries \in 0..MaxRetriesBound
    /\ ec_chunks = <<>>
    /\ e_pc = "idle"
    /\ e_i = 0
    /\ e_retry = 0
    /\ e_all = <<>>
    /\ e_log = <<>>
    /\ e_returned = <<>>
    /\ e_error = NoError
    /\ e_provider_exc = None

EmbedNext ==
    \/ \E chunks \in SeqsUpTo(ChunkDicts, MaxTexts) : EmbedChunks(chunks)
    \/ ProviderOk
    \/ ProviderRateLimit
    \/ \E err \in ProviderErrors : ProviderError(err)
    \/ BackoffDone
    \/ PauseDone

\* ------------------------------------------------------------ RAGService
\* the score 1.0; scores are integers in units of 10^-8
One == 100000000

\* a weight or score given in hundredths, as a score
Hundredths(n) == n * (One \div 100)

Abs(n) == IF n < 0 THEN -n ELSE n

\* the pairs of three-decimal weights between 0 and 1.01 whose sum is 0.99
\* or 1.01 and whose float sum is off 1.0 by no more than the float 0.01
\* (abs((0.053 + 0.937) - 1.0) is 0.010000000000000009 less one ulp of the
\* sum); for every other pair on that line the float difference is above
\* the float 0.01 (abs((0.7 + 0.31) - 1.0) is 0.010000000000000009)
RoundedWithinTolerance ==
    { <<53, 937>>, <<54, 936>>, <<55, 935>>, <<56, 934>>, <<57, 933>>, <<58, 932>>,
      <<932, 58>>, <<933, 57>>, <<934, 56>>, <<935, 55>>, <<936, 54>>, <<937, 53>>,
      <<1, 1009>>, <<3, 1007>>, <<5, 1005>>, <<7, 1003>>, <<9, 1001>>,
      <<1001, 9>>, <<1003, 7>>, <<1005, 5>>, <<1007, 3>>, <<1009, 1>> }

\* mutant of WeightsRejected: the abs() is missing
WeightsRejected_OneSided(sw, kw) ==
    \/ (sw + kw) - 1000 > 10
    \/ (sw + kw) - 1000 = 10 /\ <<sw, kw>> \notin RoundedWithinTolerance

\* if abs((semantic_weight + keyword_weight) - 1.0) > 0.01: raise ValueError.
\* Weights are in thousandths.  A sum less than 0.01 away from 1.0 passes, a
\* sum more than 0.01 away is rejected; a sum of 0.99 or 1.01 is decided by
\* the rounding of the float sum.
WeightsRejected(sw, kw) ==
    \/ Abs((sw + kw) - 1000) > 10
    \/ Abs((sw + kw) - 1000) = 10 /\ <<sw, kw>> \notin RoundedWithinTolerance

\* the defaults, a sum of 0.995 inside the tolerance, the rejected pair of
\* test_weights_must_sum_to_one, a sum above 1, and a sum of 1.01 that the
\* float comparison rejects
WeightChoices ==
    { <<700, 300>>, <<700, 295>>, <<500, 300>>, <<700, 400>>, <<700, 310>> }

NoWeights == [semantic_weight |-> 0, keyword_weight |-> 0]

\* chapters joined with books (INNER JOIN chapters, INNER JOIN books)
ChapterTable ==
    [c \in {1, 2} |-> [title |-> <<"T">>, chapter_number |-> c,
                       book_title |-> <<"B">>, book_author |-> <<"A">>]]

\* rows of the chunks table; semantic_score is 1 - cosine distance to the
\* query embedding, keyword_rank is ts_rank or -1 when the row does not match
\* the text query; section_title <<>> is a missing title
RowPool ==
    { [chapter_id |-> ch, content |-> body[1], section_title |-> body[2],
       chunk_index |-> body[3], semantic_score |-> Hundredths(sem),
       keyword_rank |-> kw] :
        ch \in {1, 2}, sem \in {40, 100}, kw \in {-1, One},
        body \in { <<<<"X">>, <<"s">>, 0>>, <<<<"z", "z">>, <<>>, 12>> } }

\* an order on RowPool, used to list each table content once
RowRank(r) ==
    (r.chapter_id - 1) * 8 + (IF r.semantic_score = One THEN 4 ELSE 0)
    + (IF r.keyword_rank = One THEN 2 ELSE 0) + (IF r.chunk_index = 0 THEN 1 ELSE 0)

IndexContents ==
    { t \in SeqsUpTo(RowPool, MaxRows) :
        \A k \in 1..(Len(t) - 1) : RowRank(t[k]) <= RowRank(t[k + 1]) }

QueryPool == { <<>>, <<"x">>, <<"X", " ", "y">>, <<"x", " ", "x", " ", "y">> }

ThresholdPool == { 0, Hundredths(70) }

\* str.lower()
LowerChar(c) == IF c = "X" THEN "x" ELSE IF c = "Z" THEN "z" ELSE c

Lower(str) == [k \in 1..Len(str) |-> LowerChar(str[k])]

\* str.split(): the maximal runs of non-whitespace characters
RECURSIVE SplitWs(_, _)
SplitWs(str, word) ==
    IF str = <<>> THEN (IF word = <<>> THEN <<>> ELSE <<word>>)
    ELSE IF Head(str) \in Whitespace
         THEN (IF word = <<>> THEN <<>> ELSE <<word>>) \o SplitWs(Tail(str), <<>>)
         ELSE SplitWs(Tail(str), Append(word, Head(str)))

Split(str) == SplitWs(str, <<>>)

\* term in content_lower
IsSubstring(term, str) ==
    \E k \in 1..(Len(str) - Len(term) + 1) : SubSeq(str, k, k + Len(term) - 1) = term

\* query_terms = set(query.lower().split())
QueryTerms(query) == { Split(Lower(query))[k] : k \in 1..Len(Split(Lower(query))) }

\* mutant of TermMatchScore: every occurrence of a term in the query counts
TermMatchScore_Occurrences(content, query) ==
    LET terms == Split(Lower(query))
        term_matches == Cardinality({ k \in 1..Len(terms) : IsSubstring(terms[k], Lower(content)) })
    IN  Min((term_matches * One) \div Max(Len(terms), 1), One)

\* term_match_score = min(term_matches / max(len(query_terms), 1), 1.0)
TermMatchScore(content, query) ==
    LET terms == QueryTerms(query)
        term_matches == Cardinality({ t \in terms : IsSubstring(t, Lower(content)) })
    IN  Min((term_matches * One) \div Max(Cardinality(terms), 1), One)

\* position_score = max(1.0 - chunk_index * 0.01, 0.9)
PositionScore(chunk_index) ==
    Max(One - chunk_index * (One \div 100), Hundredths(90))

\* mutant of RerankScore: the original score weighs 0.7
RerankScore_Weight(chunk, query) ==
    (chunk.combined_score \div 10) * 7
    + (TermMatchScore(chunk.content, query) \div 100) * 15
    + (PositionScore(chunk.chunk_index) \div 100) * 5

\* rerank_score = combined_score * 0.8 + term_match_score * 0.15 + position_score * 0.05
RerankScore(chunk, query) ==
    (chunk.combined_score \div 5) * 4
    + (TermMatchScore(chunk.content, query) \div 100) * 15
    + (PositionScore(chunk.chunk_index) \div 100) * 5

\* mutant of InsertDesc: an element goes in front of those of equal score
RECURSIVE InsertDesc_Unstable(_, _)
InsertDesc_Unstable(sorted, x) ==
    IF sorted = <<>> THEN <<x>>
    ELSE IF Head(sorted).combined_score > x.combined_score
         THEN <<Head(sorted)>> \o InsertDesc_Unstable(Tail(sorted), x)
         ELSE <<x>> \o sorted

\* list.sort(key=..., reverse=True): stable, equal keys keep their order
RECURSIVE InsertDesc(_, _)
InsertDesc(sorted, x) ==
    IF sorted = <<>> THEN <<x>>
    ELSE IF Head(sorted).combined_score >= x.combined_score
         THEN <<Head(sorted)>> \o InsertDesc(Tail(sorted), x)
         ELSE <<x>> \o sorted

RECURSIVE SortDesc(_)
SortDesc(chunks) ==
    IF chunks = <<>> THEN <<>>
    ELSE InsertDesc(SortDesc(SubSeq(chunks, 1, Len(chunks) - 1)), chunks[Len(chunks)])

\* _rerank: overwrite every combined_score, then sort the list in place
Rerank(chunks, query) ==
    IF chunks = <<>> THEN chunks
    ELSE SortDesc([k \in 1..Len(chunks) |->
                    [chunks[k] EXCEPT !.combined_score = RerankScore(chunks[k], query)]])

\* the combined CTE of the hybrid query, one RetrievedChunk per row
CombinedRow(id, row) ==
    LET keyword_score == IF row.keyword_rank < 0 THEN 0 ELSE row.keyword_rank
    IN  [chunk_id |-> id,
         content |-> row.content,
         section_title |-> row.section_title,
         chunk_index |-> row.chunk_index,
         semantic_score |-> row.semantic_score,
         keyword_score |-> keyword_score,
         combined_score |-> semantic_weight * (row.semantic_score \div 1000)
                            + keyword_weight * (keyword_score \div 1000),
         chapter_id |-> row.chapter_id,
         chapter_title |-> ChapterTable[row.chapter_id].title,
         chapter_number |-> ChapterTable[row.chapter_id].chapter_number,
         book_title |-> ChapterTable[row.chapter_id].book_title,
         book_author |-> ChapterTable[row.chapter_id].book_author]

\* mutant of InScope: the chapter filter is left out of the query
InScope_AllChapters(chapter_id) == 1..Len(index)

\* WHERE true AND c.chapter_id = ...; chapter_id 0 is "no chapter given"
InScope(chapter_id) ==
    { k \in 1..Len(index) : chapter_id = 0 \/ index[k].chapter_id = chapter_id }

\* ORDER BY c.combined_score DESC: every order of the rows in scope that is
\* descending in combined_score (rows of equal score come in any order)
SearchOrders(chapter_id) ==
    LET ids == InScope(chapter_id)
        n == Cardinality(ids)
    IN  { o \in [1..n -> ids] :
            /\ \A a \in 1..n : \A b \in 1..n : a # b => o[a] # o[b]
            /\ \A a \in 1..(n - 1) :
                 CombinedRow(o[a], index[o[a]]).combined_score
                   >= CombinedRow(o[a + 1], index[o[a + 1]]).combined_score }

\* _hybrid_search: the rows in the order the Index returned them, LIMIT :limit
HybridSearch(order, limit) ==
    [k \in 1..Min(Len(order), limit) |-> CombinedRow(order[k], index[order[k]])]

\* mutant of FilterByThreshold: the best candidate is kept when none passes
FilterByThreshold_Fallback(results, threshold) ==
    LET passing == SelectSeq(results, LAMBDA r : r.combined_score >= threshold)
    IN  IF passing = <<>> /\ results # <<>> THEN SubSeq(results, 1, 1) ELSE passing

\* filtered_results = [r for r in results if r.combined_score >= similarity_threshold]
RECURSIVE FilterByThreshold(_, _)
FilterByThreshold(results, threshold) ==
    IF results = <<>> THEN <<>>
    ELSE IF Head(results).combined_score >= threshold
         THEN <<Head(results)>> \o FilterByThreshold(Tail(results), threshold)
         ELSE FilterByThreshold(Tail(results), threshold)

\* retrieve, after the Index answered: filter, rerank, cut to top_k
RetrieveTail(results, query, top_k, threshold) ==
    SubSeq(Rerank(FilterByThreshold(results, threshold), query), 1,
           Min(top_k, Len(FilterByThreshold(results, threshold))))

NoArgs == [query |-> <<>>, chapter_id |-> 0, top_k |-> 0, similarity_threshold |-> 0,
           max_tokens |-> 0]

\* one entry of the request log of retrieve
Request(kind, limit) == [kind |-> kind, limit |-> limit]

\* retrieve up to its first await; generate_embedding of a blank query gets
\* [] from generate_embeddings and fails on embeddings[0]
Retrieve(query, chapter_id, top_k, similarity_threshold) ==
    /\ r_pc = "idle"
    /\ r_args' = [query |-> query, chapter_id |-> chapter_id, top_k |-> top_k,
                  similarity_threshold |-> similarity_threshold, max_tokens |-> 0]
    /\ IF Strip(query) = <<>>
       THEN /\ r_pc' = "failed"
            /\ r_error' = [type |-> "IndexError", cause |-> None]
            /\ UNCHANGED r_log
       ELSE /\ r_pc' = "embedding"
            /\ r_log' = Append(r_log, Request("embed", 0))
            /\ UNCHANGED r_error
    /\ UNCHANGED <<r_init_args, semantic_weight, keyword_weight, index, r_found, r_results, r_context,
                   rerank_calls, r_before, r_first>>
    /\ UNCHANGED other_than_rag

\* mutant of QueryEmbedded: the fused query asks for top_k rows only
QueryEmbedded_NoOverfetch ==
    /\ r_pc = "embedding"
    /\ r_pc' = "searching"
    /\ r_log' = Append(r_log, Request("index", r_args.top_k))
    /\ UNCHANGED <<r_init_args, semantic_weight, keyword_weight, index, r_found, r_args, r_results, r_error,
                   r_context, rerank_calls, r_before, r_first>>
    /\ UNCHANGED other_than_rag

\* the query embedding arrived: _hybrid_search issues the fused query
QueryEmbedded ==
    /\ r_pc = "embedding"
    /\ r_pc' = "searching"
    /\ r_log' = Append(r_log, Request("index", r_args.top_k * 2))
    /\ UNCHANGED <<r_init_args, semantic_weight, keyword_weight, index, r_found, r_args, r_results, r_error,
                   r_context, rerank_calls, r_before, r_first>>
    /\ UNCHANGED other_than_rag

\* generate_embedding raised: the exception leaves retrieve as it is, with
\* its cause
QueryEmbedFailed(error) ==
    /\ r_pc = "embedding"
    /\ r_pc' = "failed"
    /\ r_error' = error
    /\ UNCHANGED <<r_init_args, semantic_weight, keyword_weight, index, r_found, r_args, r_log, r_results,
                   r_context, rerank_calls, r_before, r_first>>
    /\ UNCHANGED other_than_rag

\* session.execute returned rows for the query it was sent (LIMIT :limit);
\* the rest of retrieve runs without an await
IndexAnswered(order) ==
    /\ r_pc = "searching"
    /\ r_pc' = "returned"
    /\ r_found' = HybridSearch(order, r_log[Len(r_log)].limit)
    /\ r_results' = RetrieveTail(HybridSearch(order, r_log[Len(r_log)].limit), r_args.query,
                                 r_args.top_k, r_args.similarity_threshold)
    /\ UNCHANGED <<r_init_args, semantic_weight, keyword_weight, index, r_args, r_log,
                   r_error, r_context, rerank_calls, r_before, r_first>>
    /\ UNCHANGED other_than_rag

\* session.execute raised
IndexFailed ==
    /\ r_pc = "searching"
    /\ r_pc' = "failed"
    /\ r_error' = [type |-> "DBAPIError", cause |-> None]
    /\ UNCHANGED <<r_init_args, semantic_weight, keyword_weight, index, r_found, r_args, r_log, r_results,
                   r_context, rerank_calls, r_before, r_first>>
    /\ UNCHANGED other_than_rag

\* await rag_service._rerank(results, query) on the list retrieve returned
RerankAgain ==
    /\ r_pc = "returned"
    /\ rerank_calls < MaxRerankCalls
    /\ rerank_calls' = rerank_calls + 1
    /\ r_results' = Rerank(r_results, r_args.query)
    /\ r_before' = IF rerank_calls = 0 THEN r_results ELSE r_before
    /\ r_first' = IF rerank_calls = 0 THEN Rerank(r_results, r_args.query) ELSE r_first
    /\ UNCHANGED <<r_init_args, semantic_weight, keyword_weight, index, r_found, r_pc, r_args, r_log, r_error,
                   r_context>>
    /\ UNCHANGED other_than_rag

\* len("## Relevant Context from Course Materials\n")
HeadingLen == 42

\* len("No relevant context found in the course materials.")
SentinelLen == 50

MaxTokensPool == { 0, 12, 23, 40 }

\* len(str(n)) of a non-negative integer below 1000
Digits(n) == IF n < 10 THEN 1 ELSE IF n < 100 THEN 2 ELSE 3

\* len(f"{score:.2f}") of a score below 10 in size
ShownScoreLen(score) == IF score < 0 THEN 5 ELSE 4

\* len(chunk.to_context_string()):
\* "[" book_title " - Chapter " n ": " chapter_title (" - " section_title) "]" "\n" content
ContextStringLen(chunk) ==
    1 + Len(chunk.book_title) + 11 + Digits(chunk.chapter_number) + 2
    + Len(chunk.chapter_title)
    + (IF chunk.section_title # <<>> THEN 3 + Len(chunk.section_title) ELSE 0)
    + 1 + 1 + Len(chunk.content)

\* len(chunk_str): "\n### Source " i " (Score: " score ")\n" context string "\n"
BlockLen(i, chunk) ==
    12 + Digits(i) + 9 + ShownScoreLen(chunk.combined_score) + 2
    + ContextStringLen(chunk) + 1

\* one piece of the string: the heading, the sentinel, or the block of source
\* number `source` showing chunk chunk_id with its score formatted to 2 decimals
Part(kind, source, chunk_id, score, len) ==
    [kind |-> kind, source |-> source, chunk_id |-> chunk_id, score |-> score, len |-> len]

\* mutant of FormatLoop: the budget is looked at only after the block is appended
RECURSIVE FormatLoop_CheckAfter(_, _, _, _, _)
FormatLoop_CheckAfter(chunks, i, parts, current_chars, char_budget) ==
    IF i > Len(chunks) \/ current_chars > char_budget THEN parts
    ELSE FormatLoop_CheckAfter(chunks, i + 1,
            Append(parts, Part("block", i, chunks[i].chunk_id,
                               chunks[i].combined_score,
                               BlockLen(i, chunks[i]))),
            current_chars + BlockLen(i, chunks[i]), char_budget)

\* mutant of FormatLoop: a block that does not fit is passed over and the
\* loop goes on
RECURSIVE FormatLoop_SkipOversized(_, _, _, _, _)
FormatLoop_SkipOversized(chunks, i, parts, current_chars, char_budget) ==
    IF i > Len(chunks) THEN parts
    ELSE IF current_chars + BlockLen(i, chunks[i]) > char_budget
    THEN FormatLoop_SkipOversized(chunks, i + 1, parts, current_chars, char_budget)
    ELSE FormatLoop_SkipOversized(chunks, i + 1,
            Append(parts, Part("block", i, chunks[i].chunk_id,
                               chunks[i].combined_score,
                               BlockLen(i, chunks[i]))),
            current_chars + BlockLen(i, chunks[i]), char_budget)

\* for i, chunk in enumerate(chunks, 1): ... break once a block does not fit
RECURSIVE FormatLoop(_, _, _, _, _)
FormatLoop(chunks, i, parts, current_chars, char_budget) ==
    IF i > Len(chunks) THEN parts
    ELSE IF current_chars + BlockLen(i, chunks[i]) > char_budget THEN parts
    ELSE FormatLoop(chunks, i + 1,
            Append(parts, Part("block", i, chunks[i].chunk_id,
                               chunks[i].combined_score,
                               BlockLen(i, chunks[i]))),
            current_chars + BlockLen(i, chunks[i]), char_budget)

\* format_context_for_llm; the string is kept as the parts "".join puts together
FormatContextForLlm(chunks, max_tokens) ==
    IF chunks = <<>> THEN << Part("sentinel", 0, 0, 0, SentinelLen) >>
    ELSE FormatLoop(chunks, 1, << Part("heading", 0, 0, 0, HeadingLen) >>,
                    HeadingLen, max_tokens * 4)

\* len(result)
RECURSIVE StrLen(_)
StrLen(parts) == IF parts = <<>> THEN 0 ELSE Head(parts).len + StrLen(Tail(parts))

\* await rag_service.format_context_for_llm(results, max_tokens)
FormatContext(max_tokens) ==
    /\ r_pc = "returned"
    /\ r_pc' = "formatted"
    /\ r_args' = [r_args EXCEPT !.max_tokens = max_tokens]
    /\ r_context' = FormatContextForLlm(r_results, max_tokens)
    /\ UNCHANGED <<r_init_args, semantic_weight, keyword_weight, index, r_found, r_log, r_results, r_error,
                   rerank_calls, r_before, r_first>>
    /\ UNCHANGED other_than_rag

\* RAGService(session, semantic_weight, keyword_weight): the weights are
\* stored, then checked; a raise leaves the caller without a service
NewRagService(sw, kw) ==
    /\ r_pc = "new"
    /\ r_init_args' = [semantic_weight |-> sw, keyword_weight |-> kw]
    /\ semantic_weight' = sw
    /\ keyword_weight' = kw
    /\ IF WeightsRejected(sw, kw)
       THEN /\ r_pc' = "rejected"
            /\ r_error' = [type |-> "ValueError", cause |-> None]
       ELSE /\ r_pc' = "idle"
            /\ UNCHANGED r_error
    /\ UNCHANGED <<index, r_found, r_args, r_log, r_results, r_context, rerank_calls,
                   r_before, r_first>>
    /\ UNCHANGED other_than_rag

RagNew ==
    /\ r_init_args = NoWeights
    /\ semantic_weight = 0
    /\ keyword_weight = 0
    /\ index \in IndexContents
    /\ r_found = <<>>
    /\ r_pc = "new"
    /\ r_args = NoArgs
    /\ r_log = <<>>
    /\ r_results = <<>>
    /\ r_error = NoError
    /\ r_context = <<>>
    /\ rerank_calls = 0
    /\ r_before = <<>>
    /\ r_first = <<>>

\* the other service is constructed and not in use
RagUnused ==
    /\ r_init_args = [semantic_weight |-> 700, keyword_weight |-> 300]
    /\ semantic_weight = 700
    /\ keyword_weight = 300
    /\ index = <<>>
    /\ r_found = <<>>
    /\ r_pc = "idle"
    /\ r_args = NoArgs
    /\ r_log = <<>>
    /\ r_results = <<>>
    /\ r_error = NoError
    /\ r_context = <<>>
    /\ rerank_calls = 0
    /\ r_before = <<>>
    /\ r_first = <<>>

EmbedUnused ==
    /\ batch_size = 100
    /\ max_retries = 3
    /\ ec_chunks = <<>>
    /\ e_pc = "idle"
    /\ e_i = 0
    /\ e_retry = 0
    /\ e_all = <<>>
    /\ e_log = <<>>
    /\ e_returned = <<>>
    /\ e_error = NoError
    /\ e_provider_exc = None

RagNext ==
    \/ \E w \in WeightChoices : NewRagService(w[1], w[2])
    \/ \E query \in QueryPool, chapter_id \in {0, 1}, top_k \in 1..MaxTopK,
          similarity_threshold \in ThresholdPool :
            Retrieve(query, chapter_id, top_k, similarity_threshold)
    \/ QueryEmbedded
    \/ \E error \in EmbeddingErrors : QueryEmbedFailed(error)
    \/ \E order \in SearchOrders(r_args.chapter_id) : IndexAnswered(order)
    \/ IndexFailed
    \/ RerankAgain
    \/ \E max_tokens \in MaxTokensPool : FormatContext(max_tokens)

\* ------------------------------------------------------- ChunkingService
\* The encoder is tiktoken's cl100k_base.  encode cuts the text into
\* pieces by the pattern of the encoding and turns every piece into tokens
\* by byte-pair merging over the ranks of the vocabulary; decode joins the
\* tokens again.  A token is the string of its characters.
\*
\* The characters of the texts: a digit, a sentence end and the newline.
\* The space comes in where _split_by_sentences joins two sentences.
Alphabet == { "1", ".", "\n" }

\* \p{N}
Numerals == { "1" }

\* [\r\n]
Newlines == { "\n" }

\* [^\s\p{L}\p{N}]
Punctuation == { ".", "!", "?" }

SentenceEnd == { ".", "!", "?" }

\* mergeable_ranks of cl100k_base: the tokens of more than one character
\* over ".", the newline and the space, with their ranks (a number of up to
\* three digits is a token as well, IsNumber)
MergeableRanks ==
    (<<" ", " ">> :> 256) @@ (<<" ", " ", " ", " ">> :> 257) @@
    (<<" ", " ", " ">> :> 262) @@ (<<"\n", "\n">> :> 271) @@
    (<<".", "\n", "\n">> :> 382) @@ (<<".", ".">> :> 497) @@
    (<<".", "\n">> :> 627) @@ (<<" ", ".">> :> 662) @@ (<<" ", "\n">> :> 720) @@
    (<<".", ".", ".">> :> 1131) @@ (<<"\n", "\n", "\n">> :> 1432) @@
    (<<".", ".", ".", ".">> :> 1975) @@ (<<".", ".", ".", "\n", "\n">> :> 2195) @@
    (<<" ", ".", ".", ".">> :> 2564)

\* a number of one to three digits
IsNumber(piece) ==
    /\ Len(piece) \in 1..3
    /\ \A k \in 1..Len(piece) : piece[k] \in Numerals

\* the length of the run of characters of S that starts at k
RECURSIVE RunLen(_, _, _)
RunLen(text, k, S) ==
    IF k <= Len(text) /\ text[k] \in S THEN 1 + RunLen(text, k + 1, S) ELSE 0

\* the length of the piece the pattern of cl100k_base matches at the start
\* of a text that is not empty.  Of its alternatives
\*   '(?i:[sdmt]|ll|ve|re) | [^\r\n\p{L}\p{N}]?\p{L}+ | \p{N}{1,3}
\*   | ?[^\s\p{L}\p{N}]+[\r\n]* | \s*[\r\n]+ | \s+(?!\S) | \s+
\* the first two need an apostrophe or a letter; the others are tried in
\* this order.
PieceLen(text) ==
    LET digits == RunLen(text, 1, Numerals)
        space == IF text[1] = " " THEN 1 ELSE 0
        punct == RunLen(text, 1 + space, Punctuation)
        ws == RunLen(text, 1, Whitespace)
        newlines == { k \in 1..ws : text[k] \in Newlines }
    IN  IF digits > 0 THEN Min(digits, 3)
        ELSE IF punct > 0
        THEN space + punct + RunLen(text, 1 + space + punct, Newlines)
        ELSE IF newlines # {} THEN CHOOSE k \in newlines : \A j \in newlines : j <= k
        ELSE IF ws = Len(text) \/ ws = 1 THEN ws
        ELSE ws - 1

\* the pieces of a text
RECURSIVE Pieces(_)
Pieces(text) ==
    IF text = <<>> THEN <<>>
    ELSE <<SubSeq(text, 1, PieceLen(text))>>
            \o Pieces(SubSeq(text, PieceLen(text) + 1, Len(text)))

\* byte-pair merging of a piece that is not a token itself: of the
\* neighbours that make a token together, the pair of the lowest rank (the
\* leftmost of them) is merged, until no pair is left
RECURSIVE BytePairMerge(_)
BytePairMerge(parts) ==
    LET pairs == { i \in 1..(Len(parts) - 1) :
                     parts[i] \o parts[i + 1] \in DOMAIN MergeableRanks }
        RankAt(i) == MergeableRanks[parts[i] \o parts[i + 1]]
    IN  IF pairs = {} THEN parts
        ELSE LET i == CHOOSE i \in pairs :
                        \A j \in pairs :
                            RankAt(i) < RankAt(j) \/ (RankAt(i) = RankAt(j) /\ i <= j)
             IN  BytePairMerge(SubSeq(parts, 1, i - 1)
                                 \o <<parts[i] \o parts[i + 1]>>
                                 \o SubSeq(parts, i + 2, Len(parts)))

\* the tokens of one piece
EncodePiece(piece) ==
    IF Len(piece) = 1 \/ IsNumber(piece) \/ piece \in DOMAIN MergeableRanks
    THEN <<piece>>
    ELSE BytePairMerge([k \in 1..Len(piece) |-> <<piece[k]>>])

RECURSIVE EncodePieces(_)
EncodePieces(pieces) ==
    IF pieces = <<>> THEN <<>>
    ELSE EncodePiece(Head(pieces)) \o EncodePieces(Tail(pieces))

\* self.encoder.encode(text)
Encode(text) == EncodePieces(Pieces(text))

\* self.encoder.decode(tokens)
RECURSIVE Decode(_)
Decode(tokens) == IF tokens = <<>> THEN <<>> ELSE Head(tokens) \o Decode(Tail(tokens))

\* count_tokens
CountTokens(text) == Len(Encode(text))

\* the last index of the whitespace run that starts at k
RECURSIVE WsRunEnd(_, _)
WsRunEnd(text, k) ==
    IF k < Len(text) /\ text[k + 1] \in Whitespace THEN WsRunEnd(text, k + 1) ELSE k

\* re.split(r"\n\s*\n", text): a match starts at a newline and runs, over
\* whitespace only, to the last newline of that whitespace run
RECURSIVE ReSplitParagraphs(_, _, _)
ReSplitParagraphs(text, k, piece) ==
    IF k > Len(text) THEN <<piece>>
    ELSE LET ends == { j \in (k + 1)..WsRunEnd(text, k) : text[j] = "\n" }
         IN  IF text[k] = "\n" /\ ends # {}
             THEN <<piece>> \o ReSplitParagraphs(text, (CHOOSE j \in ends : \A e \in ends : e <= j) + 1, <<>>)
             ELSE ReSplitParagraphs(text, k + 1, Append(piece, text[k]))

\* [p.strip() for p in paragraphs if p.strip()]
RECURSIVE StripNonEmpty(_)
StripNonEmpty(pieces) ==
    IF pieces = <<>> THEN <<>>
    ELSE IF Strip(Head(pieces)) # <<>> THEN <<Strip(Head(pieces))>> \o StripNonEmpty(Tail(pieces))
         ELSE StripNonEmpty(Tail(pieces))

\* split_into_paragraphs
SplitIntoParagraphs(text) == StripNonEmpty(ReSplitParagraphs(text, 1, <<>>))

\* no section title (None)
NoTitle == <<>>

\* r"^(\d+\.)+\s+(.+)$": numbers that each end in a dot, whitespace, and
\* one line of text to the end
MatchesNumbered(t) ==
    \E i \in 2..Len(t), j \in 3..Len(t) :
        /\ i < j /\ j < Len(t)
        /\ t[1] \in Numerals /\ t[i] = "."
        /\ \A k \in 1..i : t[k] \in Numerals \cup { "." }
        /\ \A k \in 2..i : t[k] = "." => t[k - 1] \in Numerals
        /\ \A k \in (i + 1)..j : t[k] \in Whitespace
        /\ \A k \in (j + 1)..Len(t) : t[k] \notin Newlines

\* detect_section_header: of the four patterns only the numbered section
\* can match a text over Alphabet (the others need "#" or a letter); then
\* the short text that does not end in ".", "!" or "?"
DetectSectionHeader(text) ==
    LET t == Strip(text)
    IN  IF MatchesNumbered(t)
        THEN t
        ELSE IF Len(t) < 100 /\ (t = <<>> \/ t[Len(t)] \notin SentenceEnd)
        THEN t
        ELSE NoTitle

\* mutant of GetOverlapText: the first tokens are taken, not the last
GetOverlapText_Head(text, config) ==
    LET tokens == Encode(text)
    IN  IF Len(tokens) <= config.overlap THEN text
        ELSE IF config.overlap = 0 THEN Decode(tokens)
        ELSE Decode(SubSeq(tokens, 1, config.overlap))

\* _get_overlap_text; tokens[-overlap:] is the whole list when overlap is 0
GetOverlapText(text, config) ==
    LET tokens == Encode(text)
    IN  IF Len(tokens) <= config.overlap THEN text
        ELSE IF config.overlap = 0 THEN Decode(tokens)
        ELSE Decode(SubSeq(tokens, Len(tokens) - config.overlap + 1, Len(tokens)))

\* re.split(r"(?<=[.!?])\s+", text): a match is a whitespace run that
\* follows ".", "!" or "?"
RECURSIVE ReSplitSentences(_, _, _)
ReSplitSentences(text, k, piece) ==
    IF k > Len(text) THEN <<piece>>
    ELSE IF k > 1 /\ text[k] \in Whitespace /\ text[k - 1] \in SentenceEnd
         THEN <<piece>> \o ReSplitSentences(text, WsRunEnd(text, k) + 1, <<>>)
         ELSE ReSplitSentences(text, k + 1, Append(piece, text[k]))

\* the loop of _split_by_sentences
RECURSIVE PackSentences(_, _, _, _)
PackSentences(sentences, current, chunks, config) ==
    IF sentences = <<>>
    THEN (IF current # <<>> THEN Append(chunks, current) ELSE chunks)
    ELSE LET sentence == Head(sentences)
             test == IF current # <<>> THEN current \o <<" ">> \o sentence ELSE sentence
         IN  IF CountTokens(test) <= config.max_chunk_size
             THEN PackSentences(Tail(sentences), test, chunks, config)
             ELSE PackSentences(Tail(sentences), sentence,
                                IF current # <<>> THEN Append(chunks, current) ELSE chunks,
                                config)

\* _split_by_sentences
SplitBySentences(text, config) ==
    PackSentences(ReSplitSentences(text, 1, <<>>), <<>>, <<>>, config)

\* _create_chunk (page_numbers is None)
CreateChunk(content, chunk_index, start_char, section_title) ==
    [content |-> Strip(content),
     chunk_index |-> chunk_index,
     start_char |-> start_char,
     end_char |-> start_char + Len(content),
     token_count |-> CountTokens(content),
     section_title |-> section_title,
     has_section_title |-> section_title # NoTitle]

\* for sent_chunk in sentence_chunks: append a chunk, advance index and start
RECURSIVE AppendSentenceChunks(_, _)
AppendSentenceChunks(st, sentence_chunks) ==
    IF sentence_chunks = <<>> THEN [st EXCEPT !.current_chunk = <<>>]
    ELSE AppendSentenceChunks(
            [st EXCEPT !.chunks = Append(@, CreateChunk(Head(sentence_chunks), st.chunk_index,
                                                        st.current_start_char, st.current_section)),
                       !.chunk_index = @ + 1,
                       !.current_start_char = @ + Len(Head(sentence_chunks))],
            Tail(sentence_chunks))

\* the texts given to chunk_text: a sentence ends in one mark
ChunkTextPool ==
    { text \in SeqsUpTo(Alphabet, MaxTextLen) :
        \A k \in 1..(Len(text) - 1) :
            ~(text[k] \in SentenceEnd /\ text[k + 1] \in SentenceEnd) }

\* mutant of ParaSep: paragraphs are joined by a single newline
ParaSep_Single == <<"\n">>

\* the "\n\n" that joins paragraphs in a chunk
ParaSep == <<"\n", "\n">>

\* mutant of ParagraphStep: a chunk above the target keeps growing up to
\* max_chunk_size before it is finalized
ParagraphStep_UpToMax(st0, para, config) ==
    LET header == DetectSectionHeader(para)
        is_header == header # NoTitle /\ Len(para) < 200
        st == IF is_header THEN [st0 EXCEPT !.current_section = header] ELSE st0
        test_chunk == IF st.current_chunk # <<>> THEN st.current_chunk \o ParaSep \o para
                      ELSE para
        test_tokens == CountTokens(test_chunk)
    IN  IF is_header /\ test_tokens <= config.max_chunk_size
        THEN [st EXCEPT !.current_chunk = test_chunk]
        ELSE IF test_tokens <= config.max_chunk_size
        THEN [st EXCEPT !.current_chunk = test_chunk]
        ELSE IF test_tokens <= config.max_chunk_size
        THEN [st EXCEPT !.chunks = Append(@, CreateChunk(test_chunk, st.chunk_index,
                                                         st.current_start_char,
                                                         st.current_section)),
                        !.chunk_index = @ + 1,
                        !.current_chunk = GetOverlapText(test_chunk, config),
                        !.current_start_char =
                            @ + Len(GetOverlapText(test_chunk, config))
                              - Len(GetOverlapText(test_chunk, config))]
        ELSE LET st1 ==
                    IF st.current_chunk # <<>>
                    THEN [st EXCEPT
                            !.chunks = Append(@, CreateChunk(st.current_chunk, st.chunk_index,
                                                             st.current_start_char,
                                                             st.current_section)),
                            !.chunk_index = @ + 1,
                            !.current_start_char =
                                @ + Len(st.current_chunk)
                                  - Len(GetOverlapText(st.current_chunk, config)),
                            !.current_chunk =
                                GetOverlapText(st.current_chunk, config) \o ParaSep \o para]
                    ELSE [st EXCEPT !.current_chunk = para]
             IN  IF CountTokens(st1.current_chunk) > config.max_chunk_size
                 THEN AppendSentenceChunks(st1, SplitBySentences(para, config))
                 ELSE st1

\* one iteration of "for para in paragraphs" of chunk_text
ParagraphStep(st0, para, config) ==
    LET header == DetectSectionHeader(para)
        is_header == header # NoTitle /\ Len(para) < 200
        st == IF is_header THEN [st0 EXCEPT !.current_section = header] ELSE st0
        test_chunk == IF st.current_chunk # <<>> THEN st.current_chunk \o ParaSep \o para
                      ELSE para
        test_tokens == CountTokens(test_chunk)
    IN  IF is_header /\ test_tokens <= config.max_chunk_size
        THEN [st EXCEPT !.current_chunk = test_chunk]
        ELSE IF test_tokens <= config.target_chunk_size
        THEN [st EXCEPT !.current_chunk = test_chunk]
        ELSE IF test_tokens <= config.max_chunk_size
        THEN [st EXCEPT !.chunks = Append(@, CreateChunk(test_chunk, st.chunk_index,
                                                         st.current_start_char,
                                                         st.current_section)),
                        !.chunk_index = @ + 1,
                        !.current_chunk = GetOverlapText(test_chunk, config),
                        !.current_start_char =
                            @ + Len(GetOverlapText(test_chunk, config))
                              - Len(GetOverlapText(test_chunk, config))]
        ELSE LET st1 ==
                    IF st.current_chunk # <<>>
                    THEN [st EXCEPT
                            !.chunks = Append(@, CreateChunk(st.current_chunk, st.chunk_index,
                                                             st.current_start_char,
                                                             st.current_section)),
                            !.chunk_index = @ + 1,
                            !.current_start_char =
                                @ + Len(st.current_chunk)
                                  - Len(GetOverlapText(st.current_chunk, config)),
                            !.current_chunk =
                                GetOverlapText(st.current_chunk, config) \o ParaSep \o para]
                    ELSE [st EXCEPT !.current_chunk = para]
             IN  IF CountTokens(st1.current_chunk) > config.max_chunk_size
                 THEN AppendSentenceChunks(st1, SplitBySentences(para, config))
                 ELSE st1

RECURSIVE ParagraphLoop(_, _, _)
ParagraphLoop(st, paragraphs, config) ==
    IF paragraphs = <<>> THEN st
    ELSE ParagraphLoop(ParagraphStep(st, Head(paragraphs), config), Tail(paragraphs), config)

\* the locals of chunk_text when it enters the paragraph loop
LoopStart(section_title) ==
    [current_chunk |-> <<>>, current_start_char |-> 0, chunk_index |-> 0,
     current_section |-> section_title, chunks |-> <<>>]

\* the locals of chunk_text before the loop and after each iteration
RECURSIVE LoopStates(_, _, _)
LoopStates(st, paragraphs, config) ==
    IF paragraphs = <<>> THEN <<st>>
    ELSE <<st>> \o LoopStates(ParagraphStep(st, Head(paragraphs), config),
                              Tail(paragraphs), config)

\* chunk_text
ChunkTextResult(text, section_title, config) ==
    LET paragraphs == SplitIntoParagraphs(text)
        st == ParagraphLoop(LoopStart(section_title), paragraphs, config)
    IN  IF paragraphs = <<>> THEN <<>>
        ELSE IF Strip(st.current_chunk) # <<>>
        THEN Append(st.chunks, CreateChunk(st.current_chunk, st.chunk_index,
                                           st.current_start_char, st.current_section))
        ELSE st.chunks

\* chunking_service.chunk_text(text, section_title)
ChunkText(text, section_title) ==
    /\ c_pc = "idle"
    /\ c_pc' = "done"
    /\ c_input' = [text |-> text, section_title |-> section_title]
    /\ c_chunks' = ChunkTextResult(text, section_title, c_config)
    /\ c_loop' = LoopStates(LoopStart(section_title), SplitIntoParagraphs(text), c_config)
    /\ UNCHANGED c_config
    /\ UNCHANGED other_than_chunk

\* ChunkConfig(target_chunk_size, max_chunk_size, overlap): a dataclass whose
\* fields are stored as given; the values taken have target <= max and any
\* overlap, below the target or not
ChunkConfigs ==
    { c \in [target_chunk_size : 1..MaxChunkSize, max_chunk_size : 1..MaxChunkSize,
             overlap : 0..MaxChunkSize] :
        c.target_chunk_size <= c.max_chunk_size }

\* no ChunkingService constructed yet
NoConfig == [target_chunk_size |-> 0, max_chunk_size |-> 0, overlap |-> 0]

\* ChunkingService(config): self.config = config or ChunkConfig()
NewChunkingService(config) ==
    /\ c_pc = "new"
    /\ c_pc' = "idle"
    /\ c_config' = config
    /\ UNCHANGED <<c_input, c_chunks, c_loop>>
    /\ UNCHANGED other_than_chunk

ChunkNew ==
    /\ c_config = NoConfig
    /\ c_pc = "new"
    /\ c_input = [text |-> <<>>, section_title |-> NoTitle]
    /\ c_chunks = <<>>
    /\ c_loop = <<>>

ChunkUnused ==
    /\ c_config = [target_chunk_size |-> 600, max_chunk_size |-> 800, overlap |-> 100]
    /\ c_pc = "idle"
    /\ c_input = [text |-> <<>>, section_title |-> NoTitle]
    /\ c_chunks = <<>>
    /\ c_loop = <<>>

ChunkNext ==
    \/ \E config \in ChunkConfigs : NewChunkingService(config)
    \/ /\ c_pc = "idle"
       /\ \E text \in ChunkTextPool, section_title \in { NoTitle, <<"h">> } :
             ChunkText(text, section_title)

\* ------------------------------------------------- BookIngestionPipeline
\* Every invocation of the script is a process of its own with its own
\* BookIngestionPipeline; each step opens a session of its own and commits,
\* so what one run commits is what the runs beside it read.
Runners == 1..MaxRuns

\* Titles of books; get_by_title and the comparison in _check_existing_book
\* ignore case.
TitlePool == { <<"x">>, <<"X">>, <<"z">> }

\* What the operator answers to _prompt_user_action.
UserActions == { "skip", "delete", "duplicate" }

\* the numbers detect_chapters reads from the chapter headings
ChapterNumbers == { 1, 2 }

\* chapters_data as detect_chapters (or the one-chapter fallback) gives it:
\* never empty; each chapter carries the number of its heading and is given
\* by the number of chunks chunk_text makes of its content.
ChaptersDataPool ==
    { cd \in SeqsUpTo([chapter_number : ChapterNumbers, chunks : 0..MaxChapterChunks],
                      MaxChapters) : cd # <<>> }

NoRun == [title |-> <<>>, force |-> FALSE, action |-> None, chapters_data |-> <<>>]

\* Book.title.ilike(f"%{title}%")
GetByTitle(title) == { b \in db_books : IsSubstring(Lower(title), Lower(b.title)) }

\* the books _check_existing_book may return: an exact match ignoring case
ExistingBooks(title) == { b \in GetByTitle(title) : Lower(b.title) = Lower(title) }

\* book_repo.delete(book_id) and commit: the foreign keys cascade to the
\* chapters of the book and to their chunks; a book that is no longer there
\* deletes nothing
DeleteCascade(book_id) ==
    /\ db_books' = { b \in db_books : b.id # book_id }
    /\ db_chapters' = { c \in db_chapters : c.book_id # book_id }
    /\ db_chunks' = { k \in db_chunks :
                        \A c \in db_chapters : c.id = k.chapter_id => c.book_id # book_id }

\* the chunk dictionaries _process_chapter prepares from the n chunks of
\* chunk_text
PrepareChunkDicts(n) ==
    [k \in 1..n |-> [content |-> <<"a">>, chunk_index |-> k - 1, embedding |-> NoEmbedding]]

\* run() starts: _check_existing_book reads the books in a session of its
\* own and returns the id of an exact match, if any
Run(r, title, force) ==
    /\ p_pc[r] = "idle"
    /\ \A q \in 1..(r - 1) : p_pc[q] # "idle"
    /\ p_args' = [p_args EXCEPT ![r] = [NoRun EXCEPT !.title = title, !.force = force]]
    /\ IF ExistingBooks(title) = {}
       THEN /\ p_existing' = [p_existing EXCEPT ![r] = 0]
            /\ p_pc' = [p_pc EXCEPT ![r] = "extract"]
       ELSE /\ \E existing \in ExistingBooks(title) :
                 p_existing' = [p_existing EXCEPT ![r] = existing.id]
            /\ p_pc' = [p_pc EXCEPT ![r] = IF force THEN "delete" ELSE "prompt"]
    /\ UNCHANGED <<db_books, db_chapters, db_chunks, next_uuid, p_book_id, p_idx,
                   p_chapter_id, p_chunks, p_error>>
    /\ UNCHANGED other_than_ingest

\* _prompt_user_action returns the operator's answer
Prompted(r, action) ==
    /\ p_pc[r] = "prompt"
    /\ p_args' = [p_args EXCEPT ![r].action = action]
    /\ p_pc' = [p_pc EXCEPT ![r] =
                  IF action = "skip" THEN "done"
                  ELSE IF action = "delete" THEN "delete"
                  ELSE "extract"]
    /\ UNCHANGED <<db_books, db_chapters, db_chunks, next_uuid, p_existing, p_book_id,
                   p_idx, p_chapter_id, p_chunks, p_error>>
    /\ UNCHANGED other_than_ingest

\* _delete_existing_book deletes the book found by the check and commits
DeleteExistingBook(r) ==
    /\ p_pc[r] = "delete"
    /\ DeleteCascade(p_existing[r])
    /\ p_pc' = [p_pc EXCEPT ![r] = "extract"]
    /\ UNCHANGED <<next_uuid, p_args, p_existing, p_book_id, p_idx, p_chapter_id,
                   p_chunks, p_error>>
    /\ UNCHANGED other_than_ingest

\* run(), steps 1 and 2: the text is extracted and the chapters detected
TextExtracted(r, chapters_data) ==
    /\ p_pc[r] = "extract"
    /\ p_args' = [p_args EXCEPT ![r].chapters_data = chapters_data]
    /\ p_pc' = [p_pc EXCEPT ![r] = "create_book"]
    /\ UNCHANGED <<db_books, db_chapters, db_chunks, next_uuid, p_existing, p_book_id,
                   p_idx, p_chapter_id, p_chunks, p_error>>
    /\ UNCHANGED other_than_ingest

\* run(), step 1: PDFProcessor cannot open or read the document; run does
\* not catch the error
ExtractionFailed(r) ==
    /\ p_pc[r] = "extract"
    /\ p_error' = [p_error EXCEPT ![r] = [type |-> "RuntimeError", cause |-> None]]
    /\ p_pc' = [p_pc EXCEPT ![r] = "failed"]
    /\ UNCHANGED <<db_books, db_chapters, db_chunks, next_uuid, p_args, p_existing,
                   p_book_id, p_idx, p_chapter_id, p_chunks>>
    /\ UNCHANGED other_than_ingest

\* run(), "Step 3": the book row is created and committed
CreateBook(r) ==
    /\ p_pc[r] = "create_book"
    /\ next_uuid' = next_uuid + 1
    /\ p_book_id' = [p_book_id EXCEPT ![r] = next_uuid + 1]
    /\ db_books' = db_books \cup { [id |-> next_uuid + 1, title |-> p_args[r].title] }
    /\ p_idx' = [p_idx EXCEPT ![r] = 1]
    /\ p_pc' = [p_pc EXCEPT ![r] = "chapter"]
    /\ UNCHANGED <<db_chapters, db_chunks, p_args, p_existing, p_chapter_id, p_chunks,
                   p_error>>
    /\ UNCHANGED other_than_ingest

\* _process_chapter up to the embed_chunks call: the chapter row is created
\* with the chapter_number of chapter_data and committed, the text is
\* chunked and the chunk dictionaries prepared
CreateChapter(r) ==
    /\ p_pc[r] = "chapter"
    /\ \E b \in db_books : b.id = p_book_id[r]
    /\ next_uuid' = next_uuid + 1
    /\ p_chapter_id' = [p_chapter_id EXCEPT ![r] = next_uuid + 1]
    /\ db_chapters' = db_chapters \cup
                        { [id |-> next_uuid + 1, book_id |-> p_book_id[r],
                           chapter_number |->
                               p_args[r].chapters_data[p_idx[r]].chapter_number] }
    /\ p_chunks' = [p_chunks EXCEPT ![r] =
                      PrepareChunkDicts(p_args[r].chapters_data[p_idx[r]].chunks)]
    /\ p_pc' = [p_pc EXCEPT ![r] = "embedding"]
    /\ UNCHANGED <<db_books, db_chunks, p_args, p_existing, p_book_id, p_idx, p_error>>
    /\ UNCHANGED other_than_ingest

\* _process_chapter: the book of the run is no longer there (another run
\* deleted it), chapters.book_id references books.id and the INSERT raises
\* IntegrityError; nothing is committed and run does not catch it
CreateChapterFailed(r) ==
    /\ p_pc[r] = "chapter"
    /\ \A b \in db_books : b.id # p_book_id[r]
    /\ p_error' = [p_error EXCEPT ![r] = [type |-> "IntegrityError", cause |-> None]]
    /\ p_pc' = [p_pc EXCEPT ![r] = "failed"]
    /\ UNCHANGED <<db_books, db_chapters, db_chunks, next_uuid, p_args, p_existing,
                   p_book_id, p_idx, p_chapter_id, p_chunks>>
    /\ UNCHANGED other_than_ingest

\* embed_chunks returns the dictionaries with their embeddings
ChunksEmbedded(r) ==
    /\ p_pc[r] = "embedding"
    /\ p_chunks' = [p_chunks EXCEPT ![r] =
                      [k \in 1..Len(p_chunks[r]) |->
                          [p_chunks[r][k] EXCEPT !.embedding = Vec(p_chunks[r][k].content)]]]
    /\ p_pc' = [p_pc EXCEPT ![r] = "storing"]
    /\ UNCHANGED <<db_books, db_chapters, db_chunks, next_uuid, p_args, p_existing,
                   p_book_id, p_idx, p_chapter_id, p_error>>
    /\ UNCHANGED other_than_ingest

\* embed_chunks raises (the provider is only called when there is a text to
\* embed); neither _process_chapter nor run catches it
EmbeddingFailed(r, error) ==
    /\ p_pc[r] = "embedding"
    /\ p_chunks[r] # <<>>
    /\ p_error' = [p_error EXCEPT ![r] = error]
    /\ p_pc' = [p_pc EXCEPT ![r] = "failed"]
    /\ UNCHANGED <<db_books, db_chapters, db_chunks, next_uuid, p_args, p_existing,
                   p_book_id, p_idx, p_chapter_id, p_chunks>>
    /\ UNCHANGED other_than_ingest

\* the chunk rows of the chapter are created and committed together, and
\* the chapter loop of run goes on
StoreChunks(r) ==
    /\ p_pc[r] = "storing"
    /\ p_chunks[r] # <<>> => \E c \in db_chapters : c.id = p_chapter_id[r]
    /\ db_chunks' = db_chunks \cup
                      { [chapter_id |-> p_chapter_id[r],
                         chunk_index |-> p_chunks[r][k].chunk_index,
                         content |-> p_chunks[r][k].content,
                         embedding |-> p_chunks[r][k].embedding] :
                            k \in 1..Len(p_chunks[r]) }
    /\ IF p_idx[r] < Len(p_args[r].chapters_data)
       THEN /\ p_idx' = [p_idx EXCEPT ![r] = p_idx[r] + 1]
            /\ p_pc' = [p_pc EXCEPT ![r] = "chapter"]
       ELSE /\ p_idx' = p_idx
            /\ p_pc' = [p_pc EXCEPT ![r] = "done"]
    /\ UNCHANGED <<db_books, db_chapters, next_uuid, p_args, p_existing, p_book_id,
                   p_chapter_id, p_chunks, p_error>>
    /\ UNCHANGED other_than_ingest

\* _process_chapter: the chapter of the run is no longer there (the delete
\* of its book cascaded to it), chunks.chapter_id references chapters.id
\* and the first INSERT raises IntegrityError; no chunk row is committed
StoreChunksFailed(r) ==
    /\ p_pc[r] = "storing"
    /\ p_chunks[r] # <<>>
    /\ \A c \in db_chapters : c.id # p_chapter_id[r]
    /\ p_error' = [p_error EXCEPT ![r] = [type |-> "IntegrityError", cause |-> None]]
    /\ p_pc' = [p_pc EXCEPT ![r] = "failed"]
    /\ UNCHANGED <<db_books, db_chapters, db_chunks, next_uuid, p_args, p_existing,
                   p_book_id, p_idx, p_chapter_id, p_chunks>>
    /\ UNCHANGED other_than_ingest

IngestIdle ==
    /\ db_books = {}
    /\ db_chapters = {}
    /\ db_chunks = {}
    /\ next_uuid = 0
    /\ p_pc = [r \in Runners |-> "idle"]
    /\ p_args = [r \in Runners |-> NoRun]
    /\ p_existing = [r \in Runners |-> 0]
    /\ p_book_id = [r \in Runners |-> 0]
    /\ p_idx = [r \in Runners |-> 0]
    /\ p_chapter_id = [r \in Runners |-> 0]
    /\ p_chunks = [r \in Runners |-> <<>>]
    /\ p_error = [r \in Runners |-> NoError]

IngestUnused == IngestIdle

IngestNext ==
    \/ \E r \in Runners, title \in TitlePool, force \in BOOLEAN : Run(r, title, force)
    \/ \E r \in Runners, action \in UserActions : Prompted(r, action)
    \/ \E r \in Runners : DeleteExistingBook(r)
    \/ \E r \in Runners, chapters_data \in ChaptersDataPool : TextExtracted(r, chapters_data)
    \/ \E r \in Runners : ExtractionFailed(r)
    \/ \E r \in Runners : CreateBook(r)
    \/ \E r \in Runners : CreateChapter(r)
    \/ \E r \in Runners : CreateChapterFailed(r)
    \/ \E r \in Runners : ChunksEmbedded(r)
    \/ \E r \in Runners, error \in EmbeddingErrors : EmbeddingFailed(r, error)
    \/ \E r \in Runners : StoreChunks(r)
    \/ \E r \in Runners : StoreChunksFailed(r)

\* -------------------------------------------- ProfileService._update_gaps
\* Concepts are strings; a dict is the sequence of its entries in
\* insertion order.  The timestamps first_seen and last_seen are left out.
ConceptPool == { <<>>, <<"X">>, <<"x", " ", "y">>, <<"y", " ", "x">> }

ProfileChapters == { 1, 2 }

HIGH_SEVERITY_THRESHOLD == 3

MEDIUM_SEVERITY_THRESHOLD == 2

\* ConceptAssessment
Assessments == [concept : ConceptPool, understood : BOOLEAN]

\* _calculate_severity
CalculateSeverity(occurrence_count) ==
    IF occurrence_count >= HIGH_SEVERITY_THRESHOLD THEN "high"
    ELSE IF occurrence_count >= MEDIUM_SEVERITY_THRESHOLD THEN "medium"
    ELSE "low"

\* position of a key in a dict, 0 when the key is absent
DictIndex(d, key) ==
    IF \E i \in 1..Len(d) : d[i].key = key
    THEN CHOOSE i \in 1..Len(d) : d[i].key = key
    ELSE 0

\* d[key] = gap
DictSet(d, key, gap) ==
    IF DictIndex(d, key) > 0
    THEN [d EXCEPT ![DictIndex(d, key)] = [key |-> key, gap |-> gap]]
    ELSE Append(d, [key |-> key, gap |-> gap])

\* del d[key]
DictDel(d, key) == SelectSeq(d, LAMBDA e : e.key # key)

\* gaps_by_concept = {gap.get("concept", "").lower(): gap for gap in current_gaps}
RECURSIVE GapsByConcept(_)
GapsByConcept(current_gaps) ==
    IF current_gaps = <<>> THEN <<>>
    ELSE LET last == current_gaps[Len(current_gaps)]
         IN  DictSet(GapsByConcept(SubSeq(current_gaps, 1, Len(current_gaps) - 1)),
                     Lower(last.concept), last)

\* set(s.split())
WordSet(str) == { Split(str)[k] : k \in 1..Len(Split(str)) }

\* what _find_matching_gap returns: a key of the dict, or None
NoMatch == [found |-> FALSE, key |-> <<>>]

Match(key) == [found |-> TRUE, key |-> key]

\* the loop of _find_matching_gap over the entries from position i on;
\* best_overlap_ratio is held as the fraction best_num / best_den
RECURSIVE MatchLoop(_, _, _, _, _, _)
MatchLoop(concept_lower, d, i, best_match, best_num, best_den) ==
    IF i > Len(d) THEN best_match
    ELSE LET existing_key == d[i].key
             existing_lower == Strip(Lower(existing_key))
             concept_words == WordSet(concept_lower)
             existing_words == WordSet(existing_lower)
             shared == Cardinality(concept_words \cap existing_words)
             smaller == Min(Cardinality(concept_words), Cardinality(existing_words))
         IN  IF IsSubstring(concept_lower, existing_lower)
                \/ IsSubstring(existing_lower, concept_lower)
             THEN Match(existing_key)
             ELSE IF /\ concept_words # {}
                     /\ existing_words # {}
                     /\ (shared >= 3 \/ shared * 10 >= 7 * smaller)
                     /\ shared * best_den > best_num * smaller
                  THEN MatchLoop(concept_lower, d, i + 1, Match(existing_key), shared, smaller)
                  ELSE MatchLoop(concept_lower, d, i + 1, best_match, best_num, best_den)

\* _find_matching_gap
FindMatchingGap(concept, d) ==
    LET concept_lower == Strip(Lower(concept))
    IN  IF DictIndex(d, concept_lower) > 0
        THEN Match(concept_lower)
        ELSE MatchLoop(concept_lower, d, 1, NoMatch, 0, 1)

\* "if matching_key:" is false for None and for the empty string
Truthy(matching_key) == matching_key.found /\ matching_key.key # <<>>

\* related.append(chapter_id) unless it is present
WithChapter(related, chapter_id) ==
    IF \E k \in 1..Len(related) : related[k] = chapter_id
    THEN related
    ELSE Append(related, chapter_id)

NewGap(concept, chapter_id) ==
    [concept |-> concept, severity |-> "low", occurrence_count |-> 1,
     related_chapters |-> <<chapter_id>>]

\* the body of the assessment loop of _update_gaps
AssessmentStep(d, assessment, chapter_id) ==
    LET matching_key == FindMatchingGap(assessment.concept, d)
        gap == d[DictIndex(d, matching_key.key)].gap
    IN  IF assessment.understood
        THEN IF Truthy(matching_key)
             THEN IF gap.occurrence_count - 1 <= 0
                  THEN DictDel(d, matching_key.key)
                  ELSE DictSet(d, matching_key.key,
                               [gap EXCEPT !.occurrence_count = @ - 1,
                                           !.severity = CalculateSeverity(gap.occurrence_count - 1)])
             ELSE d
        ELSE IF Truthy(matching_key)
             THEN DictSet(d, matching_key.key,
                          [gap EXCEPT !.occurrence_count = @ + 1,
                                      !.severity = CalculateSeverity(gap.occurrence_count + 1),
                                      !.related_chapters = WithChapter(@, chapter_id)])
             ELSE DictSet(d, Lower(assessment.concept),
                          NewGap(assessment.concept, chapter_id))

RECURSIVE AssessmentLoop(_, _, _)
AssessmentLoop(d, assessments, chapter_id) ==
    IF assessments = <<>> THEN d
    ELSE AssessmentLoop(AssessmentStep(d, Head(assessments), chapter_id),
                        Tail(assessments), chapter_id)

\* severity_order
SeverityOrder(severity) ==
    IF severity = "high" THEN 0 ELSE IF severity = "medium" THEN 1 ELSE 2

\* the sort key (severity_order, -occurrence_count) of a is at most that of b
GapKeyLeq(a, b) ==
    \/ SeverityOrder(a.severity) < SeverityOrder(b.severity)
    \/ /\ SeverityOrder(a.severity) = SeverityOrder(b.severity)
       /\ -a.occurrence_count <= -b.occurrence_count

RECURSIVE InsertGap(_, _)
InsertGap(sorted, x) ==
    IF sorted = <<>> THEN <<x>>
    ELSE IF GapKeyLeq(Head(sorted), x)
         THEN <<Head(sorted)>> \o InsertGap(Tail(sorted), x)
         ELSE <<x>> \o sorted

\* sorted(...): stable
RECURSIVE SortGaps(_)
SortGaps(gaps) ==
    IF gaps = <<>> THEN <<>>
    ELSE InsertGap(SortGaps(SubSeq(gaps, 1, Len(gaps) - 1)), gaps[Len(gaps)])

DictValues(d) == [k \in 1..Len(d) |-> d[k].gap]

\* _update_gaps
UpdateGaps(current_gaps, assessments, chapter_id) ==
    SortGaps(DictValues(AssessmentLoop(GapsByConcept(current_gaps), assessments, chapter_id)))

\* the requests that call update_from_summary for the user of the profile
Updaters == 1..MaxUpdaters

NoCall == [current_gaps |-> <<>>, assessments |-> <<>>, chapter_id |-> 0,
           updated_gaps |-> <<>>]

\* update_from_summary up to the write: the profile is read and
\* _update_gaps is called on the gaps it holds
UpdateFromSummary(u, assessments, chapter_id) ==
    /\ u_pc[u] \in { "idle", "updated" }
    /\ u_calls < MaxUpdates
    /\ u_calls' = u_calls + 1
    /\ u_args' = [u_args EXCEPT ![u] =
                    [current_gaps |-> identified_gaps, assessments |-> assessments,
                     chapter_id |-> chapter_id,
                     updated_gaps |-> UpdateGaps(identified_gaps, assessments, chapter_id)]]
    /\ u_pc' = [u_pc EXCEPT ![u] = "computed"]
    /\ UNCHANGED identified_gaps
    /\ UNCHANGED other_than_profile

\* the write of update_from_summary: updated_gaps is stored and committed
ProfileCommitted(u) ==
    /\ u_pc[u] = "computed"
    /\ identified_gaps' = u_args[u].updated_gaps
    /\ u_pc' = [u_pc EXCEPT ![u] = "updated"]
    /\ UNCHANGED <<u_calls, u_args>>
    /\ UNCHANGED other_than_profile

ProfileNew ==
    /\ identified_gaps = <<>>
    /\ u_calls = 0
    /\ u_args = [u \in Updaters |-> NoCall]
    /\ u_pc = [u \in Updaters |-> "idle"]

ProfileUnused == ProfileNew

ProfileNext ==
    \/ \E u \in Updaters, assessments \in SeqsUpTo(Assessments, MaxAssessments),
          chapter_id \in ProfileChapters :
            UpdateFromSummary(u, assessments, chapter_id)
    \/ \E u \in Updaters : ProfileCommitted(u)

\* ----------------------------------------------------------- ChatService
\* Each request runs on a ChatService with a database session of its own;
\* what one call commits is what the calls running beside it read.
\* The send_message calls, numbered in the order they start
Senders == 1..MaxSends

\* the end_conversation calls, numbered in the order they start
Enders == 1..MaxEnders

\* ConversationStatus
ACTIVE == "active"

COMPLETED == "completed"

\* chapters of the database the conversations are about; chapter 2 is an id
\* no chapter has
ChatChapters == { 1 }

\* an id no conversation has
UnknownId == 0

UserMessagePool == { "question" }

ResponsePool == { "answer" }

\* error_message of send_message
ErrorMessage == "I apologize, but I encountered an error. Please try again."

Greeting == "greeting"

\* limit of get_by_conversation
DefaultLimit == 100

\* the result of conversation_repo.get: the row, or None
NoConversation == [found |-> FALSE, status |-> None]

ConversationRepoGet(conversation_id) ==
    IF conversation_id \in DOMAIN db_conversations
    THEN [found |-> TRUE, status |-> db_conversations[conversation_id]]
    ELSE NoConversation

\* the dictionary handed to message_repo.create; created_at is the reading
\* of datetime.utcnow() taken when the dictionary is built
Message(conversation_id, role, content, created_at) ==
    [conversation_id |-> conversation_id, role |-> role, content |-> content,
     created_at |-> created_at]

RECURSIVE InsertByCreatedAt(_, _)
InsertByCreatedAt(sorted, m) ==
    IF sorted = <<>> THEN <<m>>
    ELSE IF Head(sorted).created_at <= m.created_at
         THEN <<Head(sorted)>> \o InsertByCreatedAt(Tail(sorted), m)
         ELSE <<m>> \o sorted

\* ORDER BY created_at
RECURSIVE OrderByCreatedAt(_)
OrderByCreatedAt(rows) ==
    IF rows = <<>> THEN <<>>
    ELSE InsertByCreatedAt(OrderByCreatedAt(SubSeq(rows, 1, Len(rows) - 1)), rows[Len(rows)])

\* message_repo.get_by_conversation with skip 0 and the default limit: the
\* committed messages of the conversation, ordered by created_at
GetByConversation(conversation_id) ==
    LET rows == OrderByCreatedAt(SelectSeq(db_messages,
                                           LAMBDA m : m.conversation_id = conversation_id))
    IN  SubSeq(rows, 1, Min(Len(rows), DefaultLimit))

NoSend == [conversation_id |-> UnknownId, user_message |-> None]

ChatError(type, cause) == [type |-> type, cause |-> cause]

creator_vars == <<k_pc, k_id, k_error, k_created_at>>

sender_vars == <<sends, s_pc, s_args, s_at_call, s_conversation, s_created_at, s_written, s_log,
                 s_response, s_error>>

ender_vars == <<x_pc, x_args, x_error, x_messages, x_update>>

\* create_conversation up to the greeting: the chapter is verified, the
\* conversation row is created ACTIVE and committed
CreateConversation(chapter_id) ==
    /\ k_pc \in { "idle", "done", "raised" }
    /\ Cardinality(DOMAIN db_conversations) < MaxConversations
    /\ IF chapter_id \in ChatChapters
       THEN /\ k_id' = Cardinality(DOMAIN db_conversations) + 1
            /\ db_conversations' =
                 [c \in DOMAIN db_conversations \cup { Cardinality(DOMAIN db_conversations) + 1 } |->
                    IF c \in DOMAIN db_conversations THEN db_conversations[c] ELSE ACTIVE]
            /\ k_pc' = "greeting"
            /\ k_error' = NoError
       ELSE /\ k_pc' = "raised"
            /\ k_error' = ChatError("ValueError", "not found")
            /\ UNCHANGED <<k_id, db_conversations>>
    /\ UNCHANGED <<db_messages, db_summaries, utcnow, k_created_at, sender_vars, ender_vars>>
    /\ UNCHANGED other_than_chat

\* the greeting is generated and the dictionary of the first assistant
\* message is built, with its created_at
GreetingGenerated ==
    /\ k_pc = "greeting"
    /\ utcnow' = utcnow + 1
    /\ k_created_at' = utcnow + 1
    /\ k_pc' = "save_greeting"
    /\ UNCHANGED <<db_conversations, db_messages, db_summaries, k_id, k_error, sender_vars,
                   ender_vars>>
    /\ UNCHANGED other_than_chat

\* the greeting is inserted and committed
GreetingSaved ==
    /\ k_pc = "save_greeting"
    /\ db_messages' = Append(db_messages, Message(k_id, "assistant", Greeting, k_created_at))
    /\ k_pc' = "done"
    /\ UNCHANGED <<db_conversations, db_summaries, utcnow, k_id, k_error, k_created_at,
                   sender_vars, ender_vars>>
    /\ UNCHANGED other_than_chat

\* the LLM call of _generate_initial_greeting raises
GreetingFailed ==
    /\ k_pc = "greeting"
    /\ k_pc' = "raised"
    /\ k_error' = ChatError("APIError", None)
    /\ UNCHANGED <<db_conversations, db_messages, db_summaries, utcnow, k_id, k_created_at,
                   sender_vars, ender_vars>>
    /\ UNCHANGED other_than_chat

\* send_message is called: nothing has been awaited yet.  s_at_call keeps
\* the row the conversation had at that moment
SendMessage(t, conversation_id, user_message) ==
    /\ t = sends + 1
    /\ sends' = sends + 1
    /\ s_args' = [s_args EXCEPT ![t] = [conversation_id |-> conversation_id,
                                        user_message |-> user_message]]
    /\ s_at_call' = [s_at_call EXCEPT ![t] = ConversationRepoGet(conversation_id)]
    /\ s_conversation' = [s_conversation EXCEPT ![t] = NoConversation]
    /\ s_created_at' = [s_created_at EXCEPT ![t] = 0]
    /\ s_written' = [s_written EXCEPT ![t] = <<>>]
    /\ s_log' = [s_log EXCEPT ![t] = <<>>]
    /\ s_response' = [s_response EXCEPT ![t] = None]
    /\ s_error' = [s_error EXCEPT ![t] = NoError]
    /\ s_pc' = [s_pc EXCEPT ![t] = "get_conversation"]
    /\ UNCHANGED <<db_conversations, db_messages, db_summaries, utcnow, creator_vars,
                   ender_vars>>
    /\ UNCHANGED other_than_chat

\* send_message, step 1 with every conversation taken as active
ConversationRead_AnyStatus(t) ==
    /\ s_pc[t] = "get_conversation"
    /\ s_conversation' = [s_conversation EXCEPT ![t] =
                            ConversationRepoGet(s_args[t].conversation_id)]
    /\ IF ~ConversationRepoGet(s_args[t].conversation_id).found
       THEN /\ s_pc' = [s_pc EXCEPT ![t] = "raised"]
            /\ s_error' = [s_error EXCEPT ![t] = ChatError("ValueError", "not found")]
            /\ UNCHANGED <<utcnow, s_created_at>>
       ELSE /\ s_pc' = [s_pc EXCEPT ![t] = "save_user"]
            /\ s_created_at' = [s_created_at EXCEPT ![t] = utcnow + 1]
            /\ utcnow' = utcnow + 1
            /\ UNCHANGED s_error
    /\ UNCHANGED <<db_conversations, db_messages, db_summaries, sends, s_args, s_at_call,
                   s_written, s_log, s_response, creator_vars, ender_vars>>
    /\ UNCHANGED other_than_chat

\* send_message, step 1 and the dictionary of step 2: conversation_repo.get
\* returns; the conversation must exist and be active; the dictionary of the
\* user message is built, with its created_at
ConversationRead(t) ==
    /\ s_pc[t] = "get_conversation"
    /\ s_conversation' = [s_conversation EXCEPT ![t] =
                            ConversationRepoGet(s_args[t].conversation_id)]
    /\ IF ~ConversationRepoGet(s_args[t].conversation_id).found
       THEN /\ s_pc' = [s_pc EXCEPT ![t] = "raised"]
            /\ s_error' = [s_error EXCEPT ![t] = ChatError("ValueError", "not found")]
            /\ UNCHANGED <<utcnow, s_created_at>>
       ELSE IF ConversationRepoGet(s_args[t].conversation_id).status # ACTIVE
       THEN /\ s_pc' = [s_pc EXCEPT ![t] = "raised"]
            /\ s_error' = [s_error EXCEPT ![t] = ChatError("ValueError", "not active")]
            /\ UNCHANGED <<utcnow, s_created_at>>
       ELSE /\ s_pc' = [s_pc EXCEPT ![t] = "save_user"]
            /\ s_created_at' = [s_created_at EXCEPT ![t] = utcnow + 1]
            /\ utcnow' = utcnow + 1
            /\ UNCHANGED s_error
    /\ UNCHANGED <<db_conversations, db_messages, db_summaries, sends, s_args, s_at_call,
                   s_written, s_log, s_response, creator_vars, ender_vars>>
    /\ UNCHANGED other_than_chat

\* send_message, step 2: the user message is inserted and committed
SaveUserMessage(t) ==
    /\ s_pc[t] = "save_user"
    /\ db_messages' = Append(db_messages,
                             Message(s_args[t].conversation_id, "user", s_args[t].user_message,
                                     s_created_at[t]))
    /\ s_written' = [s_written EXCEPT ![t] =
                       Append(@, Message(s_args[t].conversation_id, "user",
                                         s_args[t].user_message, s_created_at[t]))]
    /\ s_pc' = [s_pc EXCEPT ![t] = "retrieving"]
    /\ UNCHANGED <<db_conversations, db_summaries, utcnow, sends, s_args, s_at_call, s_conversation,
                   s_created_at, s_log, s_response, s_error, creator_vars, ender_vars>>
    /\ UNCHANGED other_than_chat

\* send_message, steps 3 to 6: retrieve_with_context returns, the profile is
\* read, the prompt and the message history are built
ContextRetrieved(t) ==
    /\ s_pc[t] = "retrieving"
    /\ s_log' = [s_log EXCEPT ![t] = Append(@, "retrieve_with_context")]
    /\ s_pc' = [s_pc EXCEPT ![t] = "streaming"]
    /\ UNCHANGED <<db_conversations, db_messages, db_summaries, utcnow, sends, s_args,
                   s_at_call, s_conversation, s_created_at, s_written, s_response, s_error,
                   creator_vars, ender_vars>>
    /\ UNCHANGED other_than_chat

\* what retrieve_with_context lets through, uncaught by send_message: what
\* generate_embedding raises for the query, the driver's error of the index
\* query, its own ValueError when the chapter row or its book is missing,
\* the AttributeError of UUID(prereq_id) when the chapter has prerequisites
\* (the column holds UUID objects, not strings), and the CancelledError of a
\* request task cancelled while it is awaited
RetrievalErrors ==
    EmbeddingErrors \cup
        { ChatError("DBAPIError", None), ChatError("ValueError", "chapter not found"),
          ChatError("ValueError", "book not found"), ChatError("AttributeError", None),
          ChatError("CancelledError", None) }

\* retrieve_with_context raises, or the task is cancelled at a later await
\* of steps 3 to 6; send_message does not catch it
RetrievalFailed(t, error) ==
    /\ s_pc[t] = "retrieving"
    /\ s_log' = [s_log EXCEPT ![t] = Append(@, "retrieve_with_context")]
    /\ s_pc' = [s_pc EXCEPT ![t] = "raised"]
    /\ s_error' = [s_error EXCEPT ![t] = error]
    /\ UNCHANGED <<db_conversations, db_messages, db_summaries, utcnow, sends, s_args,
                   s_at_call, s_conversation, s_created_at, s_written, s_response, creator_vars,
                   ender_vars>>
    /\ UNCHANGED other_than_chat

\* send_message, step 7 and the dictionary of step 8: the stream ends,
\* full_response is the text and the dictionary of the assistant message is
\* built, with its created_at
StreamCompleted(t, text) ==
    /\ s_pc[t] = "streaming"
    /\ s_log' = [s_log EXCEPT ![t] = Append(@, "messages.stream")]
    /\ s_response' = [s_response EXCEPT ![t] = text]
    /\ s_created_at' = [s_created_at EXCEPT ![t] = utcnow + 1]
    /\ utcnow' = utcnow + 1
    /\ s_pc' = [s_pc EXCEPT ![t] = "save_assistant"]
    /\ UNCHANGED <<db_conversations, db_messages, db_summaries, sends, s_args,
                   s_at_call, s_conversation, s_written, s_error, creator_vars, ender_vars>>
    /\ UNCHANGED other_than_chat

\* send_message, step 7 and the dictionary of step 8: the stream raises,
\* the apology replaces the response and the dictionary of the assistant
\* message is built, with its created_at
StreamFailed(t) ==
    /\ s_pc[t] = "streaming"
    /\ s_log' = [s_log EXCEPT ![t] = Append(@, "messages.stream")]
    /\ s_response' = [s_response EXCEPT ![t] = ErrorMessage]
    /\ s_created_at' = [s_created_at EXCEPT ![t] = utcnow + 1]
    /\ utcnow' = utcnow + 1
    /\ s_pc' = [s_pc EXCEPT ![t] = "save_assistant"]
    /\ UNCHANGED <<db_conversations, db_messages, db_summaries, sends, s_args,
                   s_at_call, s_conversation, s_written, s_error, creator_vars, ender_vars>>
    /\ UNCHANGED other_than_chat

\* what ends an await of send_message outside the stream, where no handler
\* stands: the cancellation of the request task, or the error of the
\* database driver
InterruptErrors == { "CancelledError", "DBAPIError" }

\* the message a call is about to insert
PendingMessage(t) ==
    IF s_pc[t] = "save_user"
    THEN Message(s_args[t].conversation_id, "user", s_args[t].user_message, s_created_at[t])
    ELSE Message(s_args[t].conversation_id, "assistant", s_response[t], s_created_at[t])

\* send_message is left at an await outside the stream: at conversation_repo.get
\* of step 1, at message_repo.create or session.commit of steps 2 and 8, or
\* at _get_recent_messages of step 3, before retrieve_with_context is called.
\* The exception propagates and the steps after it are not reached.  A
\* cancellation delivered at session.commit can find the commit already
\* applied (committed); otherwise the message of the step is not stored
SendInterrupted(t, exc, committed) ==
    /\ s_pc[t] \in { "get_conversation", "save_user", "retrieving", "save_assistant" }
    /\ committed => exc = "CancelledError" /\ s_pc[t] \in { "save_user", "save_assistant" }
    /\ IF committed
       THEN /\ db_messages' = Append(db_messages, PendingMessage(t))
            /\ s_written' = [s_written EXCEPT ![t] = Append(@, PendingMessage(t))]
       ELSE UNCHANGED <<db_messages, s_written>>
    /\ s_pc' = [s_pc EXCEPT ![t] = "raised"]
    /\ s_error' = [s_error EXCEPT ![t] = ChatError(exc, None)]
    /\ UNCHANGED <<db_conversations, db_summaries, utcnow, sends, s_args, s_at_call,
                   s_conversation, s_created_at, s_log, s_response, creator_vars, ender_vars>>
    /\ UNCHANGED other_than_chat

\* send_message, step 7: the consumer of the generator stops after a chunk
\* or after the apology (aclose raises GeneratorExit at the yield), or the
\* request task is cancelled while the stream is awaited; `except Exception`
\* catches neither and step 8 is not reached.  The awaits of the other steps
\* are left by SendInterrupted and RetrievalFailed
StreamAbandoned(t, exc) ==
    /\ s_pc[t] = "streaming"
    /\ s_log' = [s_log EXCEPT ![t] = Append(@, "messages.stream")]
    /\ s_pc' = [s_pc EXCEPT ![t] = "raised"]
    /\ s_error' = [s_error EXCEPT ![t] = ChatError(exc, None)]
    /\ UNCHANGED <<db_conversations, db_messages, db_summaries, utcnow, sends, s_args,
                   s_at_call, s_conversation, s_created_at, s_written, s_response, creator_vars,
                   ender_vars>>
    /\ UNCHANGED other_than_chat

\* send_message, step 8: the assistant message is inserted and committed
SaveAssistantMessage(t) ==
    /\ s_pc[t] = "save_assistant"
    /\ db_messages' = Append(db_messages,
                             Message(s_args[t].conversation_id, "assistant", s_response[t],
                                     s_created_at[t]))
    /\ s_written' = [s_written EXCEPT ![t] =
                       Append(@, Message(s_args[t].conversation_id, "assistant",
                                         s_response[t], s_created_at[t]))]
    /\ s_pc' = [s_pc EXCEPT ![t] = "done"]
    /\ UNCHANGED <<db_conversations, db_summaries, utcnow, sends, s_args, s_at_call, s_conversation,
                   s_created_at, s_log, s_response, s_error, creator_vars, ender_vars>>
    /\ UNCHANGED other_than_chat

NoUpdate == [current_gaps |-> <<>>, assessments |-> <<>>, chapter_id |-> 0]

\* end_conversation: the conversation is read and must exist
EndConversation(e, conversation_id) ==
    /\ x_pc[e] = "idle"
    /\ \A d \in Enders : d < e => x_pc[d] # "idle"
    /\ x_args' = [x_args EXCEPT ![e] = conversation_id]
    /\ x_messages' = [x_messages EXCEPT ![e] = <<>>]
    /\ x_update' = [x_update EXCEPT ![e] = NoUpdate]
    /\ IF ConversationRepoGet(conversation_id).found
       THEN /\ x_pc' = [x_pc EXCEPT ![e] = "update"]
            /\ x_error' = [x_error EXCEPT ![e] = NoError]
       ELSE /\ x_pc' = [x_pc EXCEPT ![e] = "raised"]
            /\ x_error' = [x_error EXCEPT ![e] = ChatError("ValueError", "not found")]
    /\ UNCHANGED <<db_conversations, db_messages, db_summaries, utcnow, creator_vars,
                   sender_vars>>
    /\ UNCHANGED other_than_chat

\* end_conversation: the status is set to COMPLETED and committed
MarkCompleted(e) ==
    /\ x_pc[e] = "update"
    /\ db_conversations' = [db_conversations EXCEPT ![x_args[e]] = COMPLETED]
    /\ x_pc' = [x_pc EXCEPT ![e] = "read_messages"]
    /\ UNCHANGED <<db_messages, db_summaries, utcnow, creator_vars, sender_vars, x_args,
                   x_error, x_messages, x_update>>
    /\ UNCHANGED other_than_chat

\* end_conversation: the messages are read; generate_summary refuses a
\* conversation without messages
MessagesRead(e) ==
    /\ x_pc[e] = "read_messages"
    /\ x_messages' = [x_messages EXCEPT ![e] = GetByConversation(x_args[e])]
    /\ IF GetByConversation(x_args[e]) = <<>>
       THEN /\ x_pc' = [x_pc EXCEPT ![e] = "raised"]
            /\ x_error' = [x_error EXCEPT ![e] = ChatError("ValueError", "no messages")]
       ELSE /\ x_pc' = [x_pc EXCEPT ![e] = "summarising"]
            /\ UNCHANGED x_error
    /\ UNCHANGED <<db_conversations, db_messages, db_summaries, utcnow, creator_vars,
                   sender_vars, x_args, x_update>>
    /\ UNCHANGED other_than_chat

\* generate_summary: the analysis is made (the fallback analysis when the
\* LLM fails) and the summary row is stored and committed, one summary per
\* conversation
SummaryGenerated(e) ==
    /\ x_pc[e] = "summarising"
    /\ IF x_args[e] \in db_summaries
       THEN /\ x_pc' = [x_pc EXCEPT ![e] = "raised"]
            /\ x_error' = [x_error EXCEPT ![e] = ChatError("IntegrityError", None)]
            /\ UNCHANGED db_summaries
       ELSE /\ x_pc' = [x_pc EXCEPT ![e] = "profile"]
            /\ db_summaries' = db_summaries \cup { x_args[e] }
            /\ UNCHANGED x_error
    /\ UNCHANGED <<db_conversations, db_messages, utcnow, creator_vars, sender_vars, x_args,
                   x_messages, x_update>>
    /\ UNCHANGED other_than_chat

\* the concepts a summary names
SummaryConcepts == { <<"X">> }

\* _build_assessments_from_summary: the understood concepts, then the
\* struggled ones
SummaryAssessments ==
    { a \in SeqsUpTo([concept : SummaryConcepts, understood : BOOLEAN], MaxAssessments) :
        \A i, j \in 1..Len(a) : (i < j /\ a[j].understood) => a[i].understood }

\* end_conversation, update_from_summary up to the write: the profile is
\* read and the assessments of the summary are built, for the chapter of the
\* conversation
ProfileLoaded(e, assessments, chapter_id) ==
    /\ x_pc[e] = "profile"
    /\ x_update' = [x_update EXCEPT ![e] = [current_gaps |-> identified_gaps,
                                            assessments |-> assessments,
                                            chapter_id |-> chapter_id]]
    /\ x_pc' = [x_pc EXCEPT ![e] = "write_profile"]
    /\ UNCHANGED <<db_conversations, db_messages, db_summaries, utcnow, creator_vars,
                   sender_vars, x_args, x_error, x_messages>>
    /\ UNCHANGED other_than_chat

\* end_conversation, the write of update_from_summary: the gaps _update_gaps
\* computed from the profile as it was read are stored and committed
ProfileUpdated(e) ==
    /\ x_pc[e] = "write_profile"
    /\ identified_gaps' = UpdateGaps(x_update[e].current_gaps, x_update[e].assessments,
                                     x_update[e].chapter_id)
    /\ x_pc' = [x_pc EXCEPT ![e] = "done"]
    /\ UNCHANGED <<u_calls, u_args, u_pc>>
    /\ UNCHANGED chat_data
    /\ UNCHANGED <<embed_vars, rag_vars, chunk_vars, ingest_vars>>

\* end_conversation: the chapter is missing, or the profile update raises:
\* logged and ignored
ProfileUpdateSkipped(e) ==
    /\ x_pc[e] \in { "profile", "write_profile" }
    /\ x_pc' = [x_pc EXCEPT ![e] = "done"]
    /\ UNCHANGED chat_data
    /\ UNCHANGED other_than_chat

ChatIdle ==
    /\ db_conversations = << >>
    /\ db_messages = <<>>
    /\ db_summaries = {}
    /\ utcnow = 0
    /\ k_pc = "idle"
    /\ k_id = UnknownId
    /\ k_error = NoError
    /\ k_created_at = 0
    /\ sends = 0
    /\ s_pc = [t \in Senders |-> "idle"]
    /\ s_args = [t \in Senders |-> NoSend]
    /\ s_at_call = [t \in Senders |-> NoConversation]
    /\ s_conversation = [t \in Senders |-> NoConversation]
    /\ s_created_at = [t \in Senders |-> 0]
    /\ s_written = [t \in Senders |-> <<>>]
    /\ s_log = [t \in Senders |-> <<>>]
    /\ s_response = [t \in Senders |-> None]
    /\ s_error = [t \in Senders |-> NoError]
    /\ x_pc = [e \in Enders |-> "idle"]
    /\ x_args = [e \in Enders |-> UnknownId]
    /\ x_error = [e \in Enders |-> NoError]
    /\ x_messages = [e \in Enders |-> <<>>]
    /\ x_update = [e \in Enders |-> NoUpdate]

ChatUnused == ChatIdle

ChatNext ==
    \/ \E chapter_id \in ChatChapters \cup { 2 } : CreateConversation(chapter_id)
    \/ GreetingGenerated
    \/ GreetingSaved
    \/ GreetingFailed
    \/ \E t \in Senders, conversation_id \in DOMAIN db_conversations \cup { UnknownId },
          user_message \in UserMessagePool :
            SendMessage(t, conversation_id, user_message)
    \/ \E t \in Senders : ConversationRead(t)
    \/ \E t \in Senders, exc \in InterruptErrors, committed \in BOOLEAN :
          SendInterrupted(t, exc, committed)
    \/ \E t \in Senders : SaveUserMessage(t)
    \/ \E t \in Senders : ContextRetrieved(t)
    \/ \E t \in Senders, error \in RetrievalErrors : RetrievalFailed(t, error)
    \/ \E t \in Senders, text \in ResponsePool : StreamCompleted(t, text)
    \/ \E t \in Senders : StreamFailed(t)
    \/ \E t \in Senders, exc \in { "GeneratorExit", "CancelledError" } : StreamAbandoned(t, exc)
    \/ \E t \in Senders : SaveAssistantMessage(t)
    \/ \E e \in Enders, conversation_id \in DOMAIN db_conversations \cup { UnknownId } :
          EndConversation(e, conversation_id)
    \/ \E e \in Enders : MarkCompleted(e)
    \/ \E e \in Enders : MessagesRead(e)
    \/ \E e \in Enders : SummaryGenerated(e)
    \/ \E e \in Enders, assessments \in SummaryAssessments, chapter_id \in ChatChapters :
          ProfileLoaded(e, assessments, chapter_id)
    \/ \E e \in Enders : ProfileUpdated(e)
    \/ \E e \in Enders : ProfileUpdateSkipped(e)

\* -------------------------------------------------------- specifications
EmbedInit == EmbedIdle /\ RagUnused /\ ChunkUnused /\ IngestUnused /\ ChatUnused /\ ProfileUnused

RagInit == RagNew /\ EmbedUnused /\ ChunkUnused /\ IngestUnused /\ ChatUnused /\ ProfileUnused

ChunkInit == ChunkNew /\ EmbedUnused /\ RagUnused /\ IngestUnused /\ ChatUnused /\ ProfileUnused

IngestInit == IngestIdle /\ EmbedUnused /\ RagUnused /\ ChunkUnused /\ ChatUnused /\ ProfileUnused

ProfileInit ==
    ProfileNew /\ EmbedUnused /\ RagUnused /\ ChunkUnused /\ IngestUnused /\ ChatUnused

ChatInit == ChatIdle /\ EmbedUnused /\ RagUnused /\ ChunkUnused /\ IngestUnused /\ ProfileUnused

SpecChunk == ChunkInit /\ [][ChunkNext]_vars

SpecEmbed == EmbedInit /\ [][EmbedNext]_vars

SpecRag == RagInit /\ [][RagNext]_vars

SpecIngest == IngestInit /\ [][IngestNext]_vars

SpecChat == ChatInit /\ [][ChatNext]_vars

SpecProfile == ProfileInit /\ [][ProfileNext]_vars

\* ------------------------------------------- properties: EmbeddingService
KindOf(kind, b) == SelectSeq(e_log, LAMBDA ev : ev.kind = kind /\ ev.batch = b)

Kind(kind) == SelectSeq(e_log, LAMBDA ev : ev.kind = kind)

Batches == 1..Len(ec_chunks)

BackoffTable == <<1, 2, 4, 8, 16, 32>>

\* C6: a rate-limited batch is retried as the same batch, the k-th retry
\* follows a wait of 2^k seconds, at most max_retries retries are made, and
\* a batch whose every attempt was rate-limited ends the call with an error.
C6_BoundedBackoff ==
    /\ e_retry <= max_retries
    /\ \A b \in Batches :
        LET waits == KindOf("wait", b)
            calls == KindOf("call", b)
        IN  /\ Len(waits) <= max_retries
            /\ Len(calls) <= max_retries + 1
            /\ Len(calls) <= Len(waits) + 1
            /\ \A j \in 1..Len(waits) : waits[j].secs = BackoffTable[j]
            /\ \A j \in 1..Len(calls) : calls[j].input = calls[1].input
    /\ (e_provider_exc = "RateLimitError" /\ e_pc # "sleep") =>
        /\ e_pc = "failed"
        /\ e_error.type = "Exception"
        /\ Len(KindOf("call", BatchNum(e_i))) = max_retries + 1
        /\ Len(KindOf("wait", BatchNum(e_i))) = max_retries

C6_Witness ==
    /\ e_pc = "failed"
    /\ e_error.cause = "RateLimitError"
    /\ max_retries = 2
    /\ Len(KindOf("wait", BatchNum(e_i))) = 2
    /\ KindOf("wait", BatchNum(e_i))[2].secs = 2

\* C7 as stated: a non-rate-limit error ends the call with exactly one
\* provider call made for that batch and no backoff wait.
C7_Original ==
    e_provider_exc \in ProviderErrors =>
        /\ e_pc = "failed"
        /\ e_error.type = e_provider_exc
        /\ Len(KindOf("call", BatchNum(e_i))) = 1
        /\ Len(KindOf("wait", BatchNum(e_i))) = 0

\* C7 amended: a non-rate-limit error ends the call at once: the failing
\* provider call is the last thing that happened (no wait, no further call),
\* the provider's own error is what the caller gets, and the calls made for
\* the batch are that one plus one per rate-limited attempt before it.
C7_FailsImmediately ==
    e_provider_exc \in ProviderErrors =>
        /\ e_pc = "failed"
        /\ e_error = [type |-> e_provider_exc, cause |-> None]
        /\ e_log[Len(e_log)].kind = "call"
        /\ Len(KindOf("call", BatchNum(e_i))) = Len(KindOf("wait", BatchNum(e_i))) + 1

C7_Witness ==
    /\ e_pc = "failed"
    /\ e_provider_exc = "BadRequestError"
    /\ e_error.type = "BadRequestError"
    /\ Len(KindOf("wait", BatchNum(e_i))) = 1

\* C8: when a batch fails for good the caller gets no vectors, also when
\* earlier batches had succeeded, and no chunk carries an embedding.
C8_NoPartialResult ==
    e_pc = "failed" =>
        /\ e_returned = <<>>
        /\ \A k \in 1..Len(ec_chunks) : ec_chunks[k].embedding = NoEmbedding

C8_Witness ==
    /\ e_pc = "failed"
    /\ e_all # <<>>
    /\ BatchNum(e_i) = 2

AllNonBlank == \A k \in 1..Len(ec_chunks) : Strip(ec_chunks[k].content) # <<>>

RECURSIVE ConcatInputs(_)
ConcatInputs(evs) ==
    IF evs = <<>> THEN <<>> ELSE Head(evs).input \o ConcatInputs(Tail(evs))

\* C9: n non-blank texts and batch size b, no provider error: ceil(n/b)
\* provider calls of sizes b, ..., b, remainder, covering the texts in order.
C9_BatchCalls ==
    (e_pc = "done" /\ AllNonBlank /\ Kind("wait") = <<>>) =>
        LET n == Len(ec_chunks)
            calls == Kind("call")
        IN  /\ Len(calls) * batch_size >= n
            /\ (Len(calls) - 1) * batch_size < n \/ n = 0
            /\ \A j \in 1..Len(calls) :
                /\ calls[j].batch = j
                /\ Len(calls[j].input) =
                     IF j < Len(calls) THEN batch_size ELSE n - batch_size * (j - 1)
            /\ ConcatInputs(calls) = [k \in 1..n |-> Strip(ec_chunks[k].content)]

C9_Witness ==
    /\ e_pc = "done"
    /\ AllNonBlank
    /\ Kind("wait") = <<>>
    /\ Len(ec_chunks) = 3
    /\ batch_size = 2
    /\ Len(Kind("call")) = 2

TotalBatches == (Len(ec_chunks) + batch_size - 1) \div batch_size

\* C10: batches run one at a time: everything batch k does (calls, waits,
\* return) precedes the pause after it, which precedes everything of batch
\* k+1; the pause follows the return of every batch but the last.
C10_Serialized ==
    /\ \A p \in 1..Len(e_log) : \A q \in 1..Len(e_log) :
          p < q => e_log[p].batch <= e_log[q].batch
    /\ \A p \in 1..Len(e_log) :
          /\ e_log[p].kind = "pause" =>
                /\ e_log[p].batch < TotalBatches
                /\ p > 1 /\ e_log[p - 1] = Event("ret", e_log[p].batch, <<>>, 0)
          /\ (e_log[p].kind = "ret" /\ e_log[p].batch < TotalBatches) =>
                (p < Len(e_log) /\ e_log[p + 1].kind = "pause")
          /\ (e_log[p].kind = "call" /\ e_log[p].batch > 1) =>
                \E q \in 1..(p - 1) :
                    e_log[q] = Event("pause", e_log[p].batch - 1, <<>>, 0)
    /\ e_pc = "pause" => e_log[Len(e_log)].kind = "pause"
    /\ e_pc = "done" => (Len(ec_chunks) = 0 \/ e_log[Len(e_log)].kind = "ret")

C10_Witness ==
    /\ e_pc = "done"
    /\ TotalBatches = 2
    /\ Len(Kind("pause")) = 1
    /\ Len(Kind("wait")) >= 1
    /\ Len(KindOf("call", 2)) >= 1

\* the non-blank texts of the call, stripped, in input order
NonBlankTexts ==
    LET stripped == [k \in 1..Len(ec_chunks) |-> Strip(ec_chunks[k].content)]
    IN  SelectSeq(stripped, LAMBDA t : t # <<>>)

\* C11: the vectors returned are one per non-blank input text, in input
\* order: the i-th vector is the provider's vector of the i-th non-blank
\* text; blank texts get no entry, also when the texts span several batches.
C11_PositionalNonBlank ==
    e_pc = "done" =>
        /\ Len(e_returned) = Len(NonBlankTexts)
        /\ \A k \in 1..Len(e_returned) : e_returned[k] = Vec(NonBlankTexts[k])

C11_Witness ==
    /\ e_pc = "done"
    /\ batch_size = 2
    /\ Len(ec_chunks) = 3
    /\ Strip(ec_chunks[1].content) = <<>>
    /\ Strip(ec_chunks[2].content) # <<>>
    /\ Strip(ec_chunks[3].content) # <<>>
    /\ ec_chunks[2].content # ec_chunks[3].content
    /\ Len(e_returned) = 2

\* C28: when embed_chunks returns, every input chunk carries an 'embedding'
\* field, and it holds the provider's vector of that chunk's own content,
\* also when some chunk of the list has blank or whitespace-only content.
C28_OwnEmbedding ==
    e_pc = "done" =>
        \A k \in 1..Len(ec_chunks) :
            /\ ec_chunks[k].embedding # NoEmbedding
            /\ ec_chunks[k].embedding = Vec(Strip(ec_chunks[k].content))

\* --------------------------------------------------- properties: RAGService
Returned == r_pc = "returned" /\ rerank_calls = 0

\* C2: every candidate retrieve returns has a combined_score of at least the
\* similarity_threshold of the call.
C2_AboveThreshold ==
    Returned =>
        \A k \in 1..Len(r_results) :
            r_results[k].combined_score >= r_args.similarity_threshold

\* C5: every candidate retrieve returns has combined_score equal, within
\* 0.01, to semantic_weight * semantic_score + keyword_weight * keyword_score.
C5_WeightedSum ==
    Returned =>
        \A k \in 1..Len(r_results) :
            Abs(r_results[k].combined_score
                - (semantic_weight * (r_results[k].semantic_score \div 1000)
                   + keyword_weight * (r_results[k].keyword_score \div 1000)))
              <= One \div 100

Formatted == r_pc = "formatted"

CharBudget == r_args.max_tokens * 4

\* the blocks format_context_for_llm put into the string
Included == Len(r_context) - 1

\* heading plus the first m blocks of the returned list
PrefixLen(m) ==
    HeadingLen + StrLen([k \in 1..m |-> [len |-> BlockLen(k, r_results[k])]])

\* C3: the string exceeds the budget of max_tokens * 4 characters by less
\* than one block (only the heading can stick out, and every block is longer
\* than the heading); blocks are appended in order while they fit and
\* appending stops at the first block that would pass the budget.  The empty
\* list gives the fixed sentinel.
C3_BudgetRespected ==
    Formatted =>
        IF r_results = <<>>
        THEN r_context = << Part("sentinel", 0, 0, 0, SentinelLen) >>
        ELSE /\ r_context[1].kind = "heading"
             /\ Included <= Len(r_results)
             /\ StrLen(r_context) = PrefixLen(Included)
             /\ \A k \in 1..Len(r_results) :
                    StrLen(r_context) < CharBudget + BlockLen(k, r_results[k])
             /\ Included > 0 => StrLen(r_context) <= CharBudget
             /\ Included < Len(r_results) => PrefixLen(Included + 1) > CharBudget

C3_Witness ==
    /\ Formatted
    /\ Len(r_results) = 2
    /\ Included = 1
    /\ StrLen(r_context) <= CharBudget

ScoreOf(chunks, id) ==
    LET k == CHOOSE j \in 1..Len(chunks) : chunks[j].chunk_id = id
    IN  chunks[k].combined_score

IsDescending(chunks) ==
    \A k \in 1..(Len(chunks) - 1) : chunks[k].combined_score >= chunks[k + 1].combined_score

\* C4 as stated: a second _rerank call on the same list and query gives the
\* ordering and the scores of the first call.
C4_Original ==
    (r_pc = "returned" /\ rerank_calls = 2) => r_results = r_first

\* C4 amended: _rerank overwrites combined_score in place, so the second
\* call on the same list re-applies the formula to the first call's scores:
\* every candidate's score changes by 0.8 times its change in the first call
\* and the list is sorted again by the new scores.
C4_SecondCallRescales ==
    (r_pc = "returned" /\ rerank_calls = 2) =>
        /\ Len(r_results) = Len(r_first)
        /\ IsDescending(r_results)
        /\ \A k \in 1..Len(r_first) :
            LET id == r_first[k].chunk_id
                s0 == ScoreOf(r_before, id)
                s1 == r_first[k].combined_score
                s2 == ScoreOf(r_results, id)
            IN  /\ \E j \in 1..Len(r_results) : r_results[j].chunk_id = id
                /\ 5 * (s2 - s1) = 4 * (s1 - s0)

C4_Witness ==
    /\ r_pc = "returned"
    /\ rerank_calls = 2
    /\ Len(r_results) = 2
    /\ r_results[1].chunk_id # r_first[1].chunk_id

\* C12: in one retrieve call the query embedding is asked for first and the
\* Index is queried only after it arrived: the requests of the call are a
\* prefix of (embedding, Index query with limit 2 * top_k).  A call that
\* returned made both, once each; a call whose embedding failed made no
\* Index query; a call whose Index query failed made that one query only.
C12_EmbedThenQuery ==
    LET full == << Request("embed", 0), Request("index", 2 * r_args.top_k) >>
    IN  /\ r_pc \in {"new", "rejected", "idle"} => r_log = <<>>
        /\ r_pc = "embedding" => r_log = SubSeq(full, 1, 1)
        /\ r_pc \in {"searching", "returned", "formatted"} => r_log = full
        /\ r_pc = "failed" =>
              IF r_error.type = "DBAPIError" THEN r_log = full
              ELSE r_log \in { <<>>, SubSeq(full, 1, 1) }

C12_Witness ==
    /\ r_pc = "failed"
    /\ r_error.type = "DBAPIError"
    /\ r_args.top_k = 2
    /\ Len(SelectSeq(r_log, LAMBDA rq : rq.kind = "index")) = 1
    /\ r_log[2].limit = 4

\* the sum of the weights given to RAGService(...), in thousandths
GivenSum == r_init_args.semantic_weight + r_init_args.keyword_weight

\* C14 as stated: RAGService(...) raises ValueError for weights that do not
\* sum to 1.0; for weights that do, it gives a service that holds the two
\* weights as given.
C14_Original ==
    /\ r_pc = "rejected" => (GivenSum # 1000 /\ r_error.type = "ValueError")
    /\ r_pc \notin {"new", "rejected"} =>
          /\ GivenSum = 1000
          /\ semantic_weight = r_init_args.semantic_weight
          /\ keyword_weight = r_init_args.keyword_weight

\* C14: RAGService(...) raises ValueError for weights whose sum is more than
\* 0.01 away from 1.0 and for no weights whose sum is less than 0.01 away
\* from it; a service that was constructed holds the two weights as given,
\* and they stay as given through every later call.
C14_WithinTolerance ==
    r_pc # "new" =>
        /\ Abs(GivenSum - 1000) > 10 => r_pc = "rejected"
        /\ Abs(GivenSum - 1000) < 10 => r_pc # "rejected"
        /\ r_pc = "rejected" => r_error.type = "ValueError"
        /\ r_pc # "rejected" =>
              /\ semantic_weight = r_init_args.semantic_weight
              /\ keyword_weight = r_init_args.keyword_weight

\* a service constructed with weights that sum to 0.995 has answered a query
C14_Witness ==
    /\ r_pc = "returned"
    /\ r_init_args = [semantic_weight |-> 700, keyword_weight |-> 295]
    /\ semantic_weight = 700
    /\ keyword_weight = 295

\* no row the Index returned has a combined_score of at least the threshold
NonePasses ==
    \A k \in 1..Len(r_found) : r_found[k].combined_score < r_args.similarity_threshold

\* C15: when the Index returns no rows, or no row reaches the threshold,
\* retrieve returns the empty list and no error.
C15_EmptyIsNormal ==
    (r_pc \in {"returned", "formatted"} /\ NonePasses) =>
        /\ r_results = <<>>
        /\ r_error = NoError

C15_Witness ==
    /\ Returned
    /\ r_found # <<>>
    /\ NonePasses
    /\ r_results = <<>>

\* C16: a retrieve call with a chapter_id returns candidates of that chapter
\* only, whatever the other chapters' rows score.
C16_ChapterScope ==
    (r_pc \in {"returned", "formatted"} /\ r_args.chapter_id # 0) =>
        \A k \in 1..Len(r_results) : r_results[k].chapter_id = r_args.chapter_id

C16_Witness ==
    /\ Returned
    /\ r_args.chapter_id = 1
    /\ r_results # <<>>
    /\ \E k \in 1..Len(index) :
          /\ index[k].chapter_id = 2
          /\ index[k].semantic_score = One
          /\ index[k].keyword_rank = One

PositionIn(chunks, id) == CHOOSE j \in 1..Len(chunks) : chunks[j].chunk_id = id

\* out is in descending order of combined_score and candidates of equal
\* score stand in the order they have in the list in
SortedStably(in, out) ==
    /\ IsDescending(out)
    /\ \A a \in 1..Len(out) : \A b \in 1..Len(out) :
          (a < b /\ out[a].combined_score = out[b].combined_score) =>
              PositionIn(in, out[a].chunk_id) < PositionIn(in, out[b].chunk_id)

\* C17: the list retrieve returns is in descending order of combined_score
\* with equal scores in the order the Index returned them; the list a direct
\* _rerank call returns is in descending order with equal scores in the order
\* of the list it was given.
C17_DescendingStable ==
    /\ Returned => SortedStably(r_found, r_results)
    /\ (r_pc = "returned" /\ rerank_calls >= 1) =>
          /\ IsDescending(r_results)
          /\ SortedStably(r_before, r_first)

C17_Witness ==
    /\ Returned
    /\ Len(r_results) = 2
    /\ r_results[1].combined_score = r_results[2].combined_score
    /\ r_results[1].chunk_id > r_results[2].chunk_id
    /\ r_found[1].chunk_id = r_results[1].chunk_id

\* the query of the call as the list of its terms
TermList == Split(Lower(r_args.query))

\* the terms of the list that occur in a content, as positions of the list
\* and as values
MatchedPositions(content) ==
    { k \in 1..Len(TermList) : IsSubstring(TermList[k], Lower(content)) }

MatchedTerms(content) == { TermList[k] : k \in MatchedPositions(content) }

DistinctTerms == { TermList[k] : k \in 1..Len(TermList) }

\* matched \div total clamped to [0, 1]; 0 for an empty query
Ratio(matched, total) == IF total = 0 THEN 0 ELSE Min((matched * One) \div total, One)

\* every returned candidate carries the score _rerank gives it when the term
\* overlap ratio of its content is ratio(content)
RerankedWith(ratio(_)) ==
    Returned =>
        \A k \in 1..Len(r_results) :
            r_results[k].combined_score =
                (ScoreOf(r_found, r_results[k].chunk_id) \div 5) * 4
                + (ratio(r_results[k].content) \div 100) * 15
                + (PositionScore(r_results[k].chunk_index) \div 100) * 5

OccurrenceRatio(content) == Ratio(Cardinality(MatchedPositions(content)), Len(TermList))

DistinctRatio(content) == Ratio(Cardinality(MatchedTerms(content)), Cardinality(DistinctTerms))

\* C24 as stated: the term overlap ratio _rerank uses counts every
\* occurrence of a term in the lower-cased, whitespace-tokenized query: matched
\* occurrences over the number of occurrences, clamped to [0, 1], 0 for an
\* empty query.
C24_Original == RerankedWith(OccurrenceRatio)

\* C24, amended: the ratio counts each distinct term of the query once:
\* distinct terms found in the lower-cased content over the number of
\* distinct terms, clamped to [0, 1], 0 for an empty query.
C24_DistinctTerms == RerankedWith(DistinctRatio)

\* a candidate is returned for a query with a repeated term of which it
\* holds one term and not another, so that the two ways of counting differ
C24_Witness ==
    /\ Returned
    /\ r_results # <<>>
    /\ Len(TermList) > Cardinality(DistinctTerms)
    /\ DistinctRatio(r_results[1].content) > 0
    /\ OccurrenceRatio(r_results[1].content) # DistinctRatio(r_results[1].content)

\* the largest m such that the heading and the first m blocks of the
\* returned list are within the budget; 0 when not even one block is
FittingPrefixes == { m \in 1..Len(r_results) : PrefixLen(m) <= CharBudget }

LargestFitting ==
    IF FittingPrefixes = {} THEN 0
    ELSE CHOOSE m \in FittingPrefixes : \A n \in FittingPrefixes : n <= m

\* C25: for a non-empty candidate list format_context_for_llm emits the
\* heading followed by the blocks of candidates 1..m, numbered 1..m, where m
\* is the largest index such that the heading and the first m blocks are
\* within max_tokens * 4 characters; no candidate after a block that does not
\* fit is included, even one that would fit.
C25_ExactPrefix ==
    (Formatted /\ r_results # <<>>) =>
        /\ r_context[1] = Part("heading", 0, 0, 0, HeadingLen)
        /\ Included = LargestFitting
        /\ \A k \in 1..Included :
              /\ r_context[k + 1].kind = "block"
              /\ r_context[k + 1].source = k
              /\ r_context[k + 1].chunk_id = r_results[k].chunk_id

\* the first block does not fit while the second alone would, and nothing
\* but the heading is emitted
C25_Witness ==
    /\ Formatted
    /\ Len(r_results) = 2
    /\ HeadingLen + BlockLen(1, r_results[1]) > CharBudget
    /\ HeadingLen + BlockLen(2, r_results[2]) <= CharBudget
    /\ Included = 0

\* ----------------------------------------------- properties: ChunkingService
\* C1: every chunk chunk_text returns has at most max_chunk_size tokens, by
\* count_tokens of its content and by its token_count field.
C1_WithinMaxChunkSize ==
    c_pc = "done" =>
        \A k \in 1..Len(c_chunks) :
            /\ CountTokens(c_chunks[k].content) <= c_config.max_chunk_size
            /\ c_chunks[k].token_count <= c_config.max_chunk_size

\* the configuration invariant of the data model
ValidConfig(config) ==
    /\ config.overlap < config.target_chunk_size
    /\ config.target_chunk_size <= config.max_chunk_size

\* C13: a chunker with overlap >= target_chunk_size is never constructed, so
\* chunk_text never runs with such a configuration.
C13_OverlapRejected ==
    c_pc \in {"idle", "done"} => c_config.overlap < c_config.target_chunk_size

\* the paragraphs of the text given to chunk_text
Paragraphs == SplitIntoParagraphs(c_input.text)

\* iteration k of the paragraph loop leads from c_loop[k] to c_loop[k + 1]
Steps == 1..Len(Paragraphs)

\* iteration k went through the sentence sub-split: only there the loop
\* leaves current_chunk empty
SubSplitAt(k) == c_loop[k + 1].current_chunk = <<>>

\* chunk j was produced by the sentence sub-split (the chunk that flushes a
\* non-empty current_chunk right before it was not)
HardSplit(j) ==
    \E k \in Steps :
        /\ SubSplitAt(k)
        /\ j > Len(c_loop[k].chunks) + (IF c_loop[k].current_chunk # <<>> THEN 1 ELSE 0)
        /\ j <= Len(c_loop[k + 1].chunks)

\* the last n tokens of a text, all of them if it has fewer
TrailingTokens(text, n) ==
    SubSeq(Encode(text), Len(Encode(text)) - Min(n, Len(Encode(text))) + 1, Len(Encode(text)))

\* the first n tokens of a text, all of them if it has fewer
LeadingTokens(text, n) == SubSeq(Encode(text), 1, Min(n, Len(Encode(text))))

SoftBoundaries ==
    { j \in 1..(Len(c_chunks) - 1) : ~HardSplit(j) /\ ~HardSplit(j + 1) }

\* current_chunk + "\n\n" + para, or para when current_chunk is empty
TestChunk(k) ==
    IF c_loop[k].current_chunk # <<>>
    THEN c_loop[k].current_chunk \o <<"\n", "\n">> \o Paragraphs[k]
    ELSE Paragraphs[k]

\* paragraph k is taken as a section header
IsHeader(k) == DetectSectionHeader(Paragraphs[k]) # NoTitle /\ Len(Paragraphs[k]) < 200

\* appending paragraph k brings the chunk above target but not above max
AboveTarget(k) ==
    /\ CountTokens(TestChunk(k)) > c_config.target_chunk_size
    /\ CountTokens(TestChunk(k)) <= c_config.max_chunk_size

\* iteration k emitted one chunk: current_chunk with paragraph k at its end
FinalizedAt(k) ==
    /\ Len(c_loop[k + 1].chunks) = Len(c_loop[k].chunks) + 1
    /\ SubSeq(c_loop[k + 1].chunks, 1, Len(c_loop[k].chunks)) = c_loop[k].chunks
    /\ c_loop[k + 1].chunks[Len(c_loop[k + 1].chunks)].content = Strip(TestChunk(k))
    /\ c_loop[k + 1].chunks[Len(c_loop[k + 1].chunks)].token_count = CountTokens(TestChunk(k))

\* iteration k appended paragraph k to current_chunk and emitted nothing
FoldedAt(k) ==
    /\ c_loop[k + 1].chunks = c_loop[k].chunks
    /\ c_loop[k + 1].current_chunk = TestChunk(k)

\* C20 as stated, for a configuration with overlap < target <= max: a
\* paragraph that brings the chunk above target and not above max is added
\* and the chunk is finalized at once, so no paragraph is appended to a
\* current chunk that already has more than target tokens.
C20_Original ==
    (c_pc = "done" /\ ValidConfig(c_config)) =>
        \A k \in Steps :
            /\ AboveTarget(k) => FinalizedAt(k)
            /\ (/\ CountTokens(c_loop[k].current_chunk) > c_config.target_chunk_size
                /\ k > 1 /\ FoldedAt(k - 1)) => ~(FoldedAt(k) \/ FinalizedAt(k))

\* C20 amended: a paragraph that is not taken as a section header and brings
\* the chunk above target but not above max is added and the chunk is
\* finalized at once; a paragraph taken as a header is folded into the chunk
\* whenever the result is within max, and the chunk is not finalized then.
C20_NonHeaderFinalized ==
    c_pc = "done" =>
        \A k \in Steps :
            /\ (AboveTarget(k) /\ ~IsHeader(k)) => FinalizedAt(k)
            /\ (IsHeader(k) /\ CountTokens(TestChunk(k)) <= c_config.max_chunk_size) =>
                    FoldedAt(k)

C20_Witness ==
    /\ c_pc = "done"
    /\ ValidConfig(c_config)
    /\ Len(Paragraphs) = 2
    /\ AboveTarget(2) /\ ~IsHeader(2) /\ FinalizedAt(2)
    /\ IsHeader(1) /\ AboveTarget(1) /\ FoldedAt(1)

\* the paragraphs joined by blank lines
RECURSIVE JoinParagraphs(_)
JoinParagraphs(ps) ==
    IF ps = <<>> THEN <<>>
    ELSE IF Len(ps) = 1 THEN ps[1]
    ELSE ps[1] \o <<"\n", "\n">> \o JoinParagraphs(Tail(ps))

\* C19: when the paragraphs joined by blank lines have at most
\* target_chunk_size tokens, chunk_text returns one chunk, whose content is
\* the paragraphs in source order joined by blank lines.
C19_SingleChunk ==
    (/\ c_pc = "done"
     /\ Paragraphs # <<>>
     /\ CountTokens(JoinParagraphs(Paragraphs)) <= c_config.target_chunk_size) =>
        /\ Len(c_chunks) = 1
        /\ c_chunks[1].content = JoinParagraphs(Paragraphs)
        /\ c_chunks[1].chunk_index = 0
        /\ c_chunks[1].token_count = CountTokens(JoinParagraphs(Paragraphs))

C19_Witness ==
    /\ c_pc = "done"
    /\ Len(Paragraphs) = 2
    /\ CountTokens(JoinParagraphs(Paragraphs)) <= c_config.target_chunk_size
    /\ Len(c_chunks) = 1

\* the iteration that emitted chunk j; one past the last iteration for the
\* chunk appended after the loop
EmitStep(j) ==
    IF \E k \in Steps : Len(c_loop[k + 1].chunks) >= j
    THEN CHOOSE k \in Steps :
            /\ Len(c_loop[k + 1].chunks) >= j
            /\ Len(c_loop[k].chunks) < j
    ELSE Len(Paragraphs) + 1

\* chunk j is the current chunk that iteration k flushed without paragraph k,
\* which would have brought it above max
FlushedBefore(j, k) ==
    /\ k \in Steps
    /\ j = Len(c_loop[k].chunks) + 1
    /\ c_loop[k].current_chunk # <<>>
    /\ CountTokens(TestChunk(k)) > c_config.max_chunk_size

\* C18 as stated, for a configuration with overlap < target <= max: at a
\* boundary that is not a hard split the leading tokens of chunk j+1 are the
\* trailing overlap tokens of chunk j.
C18_Original ==
    (c_pc = "done" /\ ValidConfig(c_config)) =>
        \A j \in SoftBoundaries :
            LeadingTokens(c_chunks[j + 1].content, c_config.overlap)
                = TrailingTokens(c_chunks[j].content, c_config.overlap)

\* the text chunk j was created from, before _create_chunk stripped it: the
\* current chunk flushed without the paragraph, the current chunk with the
\* paragraph that finalized it, or what was left after the loop
RawText(j) ==
    LET k == EmitStep(j)
    IN  IF k > Len(Paragraphs) THEN c_loop[k].current_chunk
        ELSE IF FlushedBefore(j, k) THEN c_loop[k].current_chunk
        ELSE TestChunk(k)

\* C18 amended: at a boundary that is not a hard split the content of chunk
\* j+1 begins with the text of the trailing overlap tokens of the text chunk
\* j was created from, less the whitespace that text begins with (a chunk's
\* content is stripped when the chunk is created).
C18_SeedIsPrefix ==
    c_pc = "done" =>
        \A j \in SoftBoundaries :
            LET seed == LStrip(Decode(TrailingTokens(RawText(j), c_config.overlap)))
            IN  /\ c_chunks[j].content = Strip(RawText(j))
                /\ Len(c_chunks[j + 1].content) >= Len(seed)
                /\ SubSeq(c_chunks[j + 1].content, 1, Len(seed)) = seed

C18_Witness ==
    /\ c_pc = "done"
    /\ ValidConfig(c_config)
    /\ c_config.overlap = 2
    /\ Len(c_chunks) = 2
    /\ SoftBoundaries = {1}
    /\ TrailingTokens(c_chunks[1].content, 2) = << <<"\n">>, <<".">> >>
    /\ LeadingTokens(c_chunks[2].content, 1) = << <<".">> >>

\* iteration k finalized a chunk and left its overlap text as the seed of the
\* next one, and the chunk emitted next holds that seed and nothing else
SeedEmittedAlone(k) ==
    /\ FinalizedAt(k)
    /\ Len(c_chunks) > Len(c_loop[k + 1].chunks)
    /\ LET next == c_chunks[Len(c_loop[k + 1].chunks) + 1]
       IN  /\ next.content = Strip(c_loop[k + 1].current_chunk)
           /\ next.token_count = CountTokens(c_loop[k + 1].current_chunk)

\* C26: for a configuration with overlap < target <= max, no chunk of
\* chunk_text, the final one included, consists solely of the overlap text
\* seeded from its predecessor: every chunk holds source text that the chunk
\* before it does not.
C26_NoOverlapOnlyChunk ==
    (c_pc = "done" /\ ValidConfig(c_config)) =>
        \A k \in Steps : ~SeedEmittedAlone(k)

\* the last paragraph of the source that has text in chunk j
LastParagraph(j) ==
    IF FlushedBefore(j, EmitStep(j)) THEN EmitStep(j) - 1
    ELSE Min(EmitStep(j), Len(Paragraphs))

HeadersUpTo(m) == { i \in 1..m : IsHeader(i) }

\* the most recent header among the paragraphs 1..m; defined when there is one
RecentHeader(m) ==
    Paragraphs[CHOOSE i \in HeadersUpTo(m) : \A h \in HeadersUpTo(m) : h <= i]

\* C27: for a configuration with overlap < target <= max, the section_title
\* of each chunk is the caller's hint or the most recent header detected at
\* or before the end of the chunk's content; never a header that comes only
\* after the content.
C27_TitleNotFromLater ==
    (c_pc = "done" /\ ValidConfig(c_config)) =>
        \A j \in 1..Len(c_chunks) :
            \/ c_chunks[j].section_title = c_input.section_title
            \/ /\ HeadersUpTo(LastParagraph(j)) # {}
               /\ c_chunks[j].section_title = RecentHeader(LastParagraph(j))

\* ------------------------------------- properties: BookIngestionPipeline
\* the rows the run has written: its book, the chapters of that book and the
\* chunks of those chapters
WrittenByRun(r) ==
    [books |-> { b \in db_books : b.id = p_book_id[r] },
     chapters |-> { c \in db_chapters : c.book_id = p_book_id[r] },
     chunks |-> { k \in db_chunks :
                    \E c \in db_chapters : c.id = k.chapter_id /\ c.book_id = p_book_id[r] }]

\* C21: when the embedding step fails during an ingestion run, the store
\* holds no chunk without its embedding and nothing the failed run wrote
\* remains: no chunk, no chapter and no book record of that run.
C21_NoPartialWrites ==
    \A r \in Runners :
        (p_pc[r] = "failed" /\ p_error[r] \in EmbeddingErrors) =>
            /\ \A k \in db_chunks : k.embedding # NoEmbedding
            /\ WrittenByRun(r) = [books |-> {}, chapters |-> {}, chunks |-> {}]

\* ----------------------------------------------- properties: ChatService
\* the call of sender t was made on a conversation id that did not exist,
\* or on a conversation whose status was not ACTIVE
OnInactive(t) ==
    /\ s_pc[t] # "idle"
    /\ \/ ~s_at_call[t].found
       \/ s_at_call[t].status # ACTIVE

\* the original statement: such a call, once it has ended, has raised
\* ValueError, persisted no message and made no retrieval or LLM request
C22_Original ==
    \A t \in Senders :
        (OnInactive(t) /\ s_pc[t] # "get_conversation") =>
            /\ s_pc[t] = "raised"
            /\ s_error[t].type = "ValueError"
            /\ s_written[t] = <<>>
            /\ s_log[t] = <<>>

\* C22: a send_message call on a conversation id that does not exist, or on
\* a conversation whose status is not ACTIVE, never gets past the read of
\* the conversation: it persists no message and makes no retrieval or LLM
\* request, and it ends only by raising; what it raises is ValueError, or,
\* when the read itself is interrupted, the exception that interrupted it
\* (CancelledError, or the error of the database driver).
C22_RefusedOrInterrupted ==
    \A t \in Senders :
        OnInactive(t) =>
            /\ s_written[t] = <<>>
            /\ s_log[t] = <<>>
            /\ s_pc[t] \in { "get_conversation", "raised" }
            /\ s_pc[t] = "raised" =>
                  s_error[t].type \in { "ValueError" } \cup InterruptErrors
            /\ (s_pc[t] = "raised" /\ s_error[t].type = "ValueError") =>
                  s_error[t].cause = IF s_at_call[t].found THEN "not active" ELSE "not found"

\* a call refused on a completed conversation that holds messages
C22_Witness ==
    \E t \in Senders :
        /\ OnInactive(t)
        /\ s_at_call[t].status = COMPLETED
        /\ GetByConversation(s_args[t].conversation_id) # <<>>
        /\ s_pc[t] = "raised"
        /\ s_error[t] = ChatError("ValueError", "not active")

\* C29: once a conversation's status is COMPLETED no send_message call
\* persists a further message to it, whatever the interleaving of
\* end_conversation with the send_message calls: a step in which a call
\* persists a message is a step on a conversation that is not COMPLETED.
C29_NoMessageAfterCompleted ==
    [][\A t \in Senders :
          Len(s_written'[t]) > Len(s_written[t]) =>
              db_conversations[s_args[t].conversation_id] # COMPLETED]_vars

\* the roles of the messages a call has persisted
Roles(msgs) == [k \in 1..Len(msgs) |-> msgs[k].role]

\* C30: a send_message call that has terminated, normally or with an error,
\* has persisted either nothing or exactly one user message followed by
\* exactly one assistant message.
C30_UserAndAssistantPaired ==
    \A t \in Senders :
        s_pc[t] \in { "done", "raised" } =>
            Roles(s_written[t]) \in { <<>>, <<"user", "assistant">> }

\* ------------------------------------ properties: ProfileService gaps
\* the severity the claim gives to a count
SeverityFor(occurrence_count) ==
    IF occurrence_count = 1 THEN "low"
    ELSE IF occurrence_count = 2 THEN "medium"
    ELSE "high"

\* the occurrence_count of the gap on a concept, ignoring case; 0 when no
\* gap is stored on it
CountOf(gaps, concept) ==
    IF \E k \in 1..Len(gaps) : Lower(gaps[k].concept) = Lower(concept)
    THEN gaps[CHOOSE k \in 1..Len(gaps) : Lower(gaps[k].concept) = Lower(concept)].occurrence_count
    ELSE 0

\* the call of updater u assessed one concept, on which the profile it read
\* stored a gap
SingleOnStoredGap(u) ==
    /\ u_pc[u] \in { "computed", "updated" }
    /\ Len(u_args[u].assessments) = 1
    /\ CountOf(u_args[u].current_gaps, u_args[u].assessments[1].concept) > 0

\* C23: after any sequence of _update_gaps calls from the empty list every
\* stored gap has occurrence_count >= 1 and the severity its count gives
\* (1 low, 2 medium, 3 or more high); a struggle on the concept of a stored
\* gap adds one to its count, an understanding takes one off, and a gap
\* whose count reaches 0 is no longer stored.
C23_GapCounts ==
    /\ \A k \in 1..Len(identified_gaps) :
          /\ identified_gaps[k].occurrence_count >= 1
          /\ identified_gaps[k].severity = SeverityFor(identified_gaps[k].occurrence_count)
    /\ \A u \in Updaters :
          SingleOnStoredGap(u) =>
              LET a == u_args[u].assessments[1]
              IN  CountOf(u_args[u].updated_gaps, a.concept) =
                    CountOf(u_args[u].current_gaps, a.concept)
                        + (IF a.understood THEN -1 ELSE 1)

====
